---- MODULE Spec2Model ----
(***************************************************************************)
(* A model of specsheet's check-execution engine: the Exec cell            *)
(* (spec_exec/src/exec.rs), the Executor (spec_exec/src/executor.rs), the  *)
(* command adapters (spec_commands/src), the checks (spec_checks/src) and  *)
(* the driver (src/main.rs, src/set.rs, src/filter.rs) and the analysis    *)
(* table (spec_analysis/src/table.rs).                                     *)
(*                                                                         *)
(* Option<T> is modelled as a sequence: <<>> is None, <<x>> is Some(x).    *)
(* Output lines are strings of a small vocabulary; a regular expression is *)
(* modelled by the table of its captures on that vocabulary.               *)
(***************************************************************************)
EXTENDS Integers, Sequences, FiniteSets, TLC

VARIABLES
    mode,          \* RunningMode: "run", "continual", "syntax", "list"
                   \* (ListCommandsOnly), "list_checks", "list_tags"; or
                   \* "invalid" when getopts refused the options
    options,       \* the checking and ending options
    filter,        \* Options.filter: tags, types and running order
    inputs,        \* the input sources, each with the document it holds
    pc,            \* position of `run` in main.rs
    fileIdx,       \* index of the input source of the `for input_source` loop
    checks,        \* CheckSet.checks of the current check set
    idx,           \* index of the check of the running sweep
    primed,        \* how many checks of the set prime_commands has loaded
    commands,      \* the Commands set: one adapter per field
    nextId,        \* allocation stamp of the next cell an adapter creates
    executor,      \* Executor.command_history
    spawnLog,      \* every process start, with the place it happened at
    calls,         \* every call on a cell: what it matched on and returned
    outputs,       \* check_outputs of the section being run
    uiLog,         \* what print_check showed for each check of the section
    table,         \* the section's AnalysisTable, if analysis is on
    sections,      \* the completed sections
    listed,        \* the commands printed by list-commands
    side,          \* the side process: "none", "running", "stopped"
    file_errored,  \* main.rs: file_errored
    checks_have_failed,  \* main.rs: checks_have_failed
    shuffles,      \* how many times the last read_toml shuffled the set
    sleeps,        \* every sleep of the sweep over the current set
    first,         \* run_all: first
    pass,          \* continual mode: the number of the pass
    exit_code,     \* the exit code of the process, once it has exited
    cop,           \* concurrent callers: the operation they all call
    cell,          \* concurrent callers: the one cell they share
    lock,          \* concurrent callers: the holder of the cell's mutex
    cpc,           \* concurrent callers: position of each caller in the call
    cret,          \* concurrent callers: what each caller returned
    csaw,          \* concurrent callers: the state each caller matched on
    cexecs,        \* concurrent callers: the callers that ran the command
    atable,        \* analysis alone: an AnalysisTable
    added,         \* analysis alone: every call of add on it so far
    corals,        \* analysis alone: what resolve_correlations returned
    hcheck,        \* HTTP check alone: the HttpCheck
    hresponse,     \* HTTP check alone: what get_response gives
    hresults,      \* HTTP check alone: what check returned
    bserver,       \* one batch: how the HTTP server answers
    bfile,         \* one batch: whether the paths of the batch exist
    bchecks,       \* one batch: the checks, in the order they are primed
    bcommands,     \* one batch: the Commands set
    bexecutor,     \* one batch: Executor.command_history
    bpc,           \* one batch: "prime", "check", "done" or "panicked"
    bidx,          \* one batch: index of the check of the running sweep
    bresults,      \* one batch: the sub-results of each check run so far
    rwArgs,        \* rewrites alone: the --rewrite arguments, as [this, that]
    rwValue,       \* rewrites alone: the declared value and its kind
    rwOut          \* rewrites alone: the value after each application so far

progVars == <<mode, options, filter, inputs, pc, fileIdx, checks, idx, primed,
              commands, nextId, executor, spawnLog, calls, outputs, uiLog, table,
              sections, listed, side, file_errored, checks_have_failed,
              shuffles, sleeps, first, pass, exit_code>>
concVars == <<cop, cell, lock, cpc, cret, csaw, cexecs>>
anaVars == <<atable, added, corals>>
httpVars == <<hcheck, hresponse, hresults>>
batchVars == <<bserver, bfile, bchecks, bcommands, bexecutor, bpc, bidx, bresults>>
rwVars == <<rwArgs, rwValue, rwOut>>
unitVars == <<anaVars, httpVars, batchVars, rwVars>>
vars == <<progVars, concVars, unitVars>>

----
\* Bounds of the model.

\* The most input files of one program invocation.
MaxFiles == 2
\* The number of concurrent callers of one cell.
MaxCallers == 3
\* The passes of continual mode that are counted; later passes count as the
\* last of them.
MaxPasses == 2

----
\* Option, and maps (BTreeMap) as functions.

None == <<>>
Some(x) == <<x>>

MapInsert(m, k, v) == [x \in (DOMAIN m) \cup {k} |-> IF x = k THEN v ELSE m[x]]
EmptyMap == [x \in {} |-> 0]

Range(s) == {s[i] : i \in DOMAIN s}

RECURSIVE Flatten(_)
Flatten(ss) == IF ss = <<>> THEN <<>> ELSE Head(ss) \o Flatten(Tail(ss))

----
\* spec_exec/src/executor.rs

Status(n) == [kind |-> "Status", code |-> n]
Signal(n) == [kind |-> "Signal", code |-> n]

\* ExitReason::is
ExitReasonIs(er, expected_status) ==
    IF er.kind = "Overridden" THEN TRUE
    ELSE IF er.kind = "Status" THEN er.code = expected_status
    ELSE FALSE

\* What the operating system does with one process: the spawn fails, reading
\* its standard output fails, waiting for it fails, or it exits.
SpawnFail == [kind |-> "Spawn", exit |-> Status(0), stdout |-> <<>>]
StdoutFail == [kind |-> "Stdout", exit |-> Status(0), stdout |-> <<>>]
WaitFail == [kind |-> "Wait", exit |-> Status(0), stdout |-> <<>>]
Exits(er, lines) == [kind |-> "Exit", exit |-> er, stdout |-> lines]
\* Waiting fails once the lines `lines` have been read from standard output.
WaitFailAfter(lines) == [kind |-> "Wait", exit |-> Status(0), stdout |-> lines]

\* A Result: Ok(v) or Err(e).
Ok(v) == [ok |-> TRUE, v |-> v]
Err(e) == [ok |-> FALSE, v |-> e]

ExecError(kind) == [err |-> kind, reason |-> Status(0)]
StatusMismatch(er) == [err |-> "StatusMismatch", reason |-> er]

\* ExitReason::should_be
ShouldBe(er, expected_status) ==
    IF ExitReasonIs(er, expected_status) THEN Ok([unit |-> TRUE]) ELSE Err(StatusMismatch(er))

RanCommand(command, o) ==
    [invocation |-> command, exit_reason |-> o.exit, stdout_lines |-> o.stdout]

\* Faulty variant of Store: the new entry takes the place of the history.
StoreOverwriting(history, ran_command) == <<ran_command>>

\* CommandHistory::store
Store(history, ran_command) == Append(history, ran_command)

\* Faulty variant of RunAndStore: what was read of a process is stored in the
\* history even when waiting for it fails.
RunAndStoreEarly(history, command, o) ==
    IF o.kind = "Exit"
    THEN [res |-> Ok(RanCommand(command, o)),
          history |-> Store(history, RanCommand(command, o))]
    ELSE [res |-> Err(ExecError(o.kind)),
          history |-> IF o.kind = "Wait" THEN Store(history, RanCommand(command, o))
                      ELSE history]

\* Executor::run_and_store, of command `command` when the process does `o`:
\* the result and the command history after it.
RunAndStore(history, command, o) ==
    IF o.kind = "Exit"
    THEN [res |-> Ok(RanCommand(command, o)),
          history |-> Store(history, RanCommand(command, o))]
    ELSE [res |-> Err(ExecError(o.kind)), history |-> history]

----
\* spec_exec/src/exec.rs: the Exec cell.

\* Exec::actual: Inner::Invocation(Mutex(State::Primed(command))). `id` is the
\* allocation stamp that tells this cell from any other the adapter creates.
Actual(command, id) ==
    [state |-> "Primed", cmd |-> Some(command), raw |-> None, val |-> None,
     err |-> None, id |-> id, poisoned |-> FALSE]

\* Exec::predetermined
Predetermined(name, object) ==
    [state |-> "Predetermined", cmd |-> None, raw |-> None, val |-> Some(object),
     err |-> None, id |-> 0, poisoned |-> FALSE]

\* Faulty variant of Seen: the poison of the mutex is ignored, as with
\* lock().unwrap_or_else(PoisonError::into_inner).
SeenIgnoringPoison(c) == c.state

\* The state a call matches on after mutex.lock().unwrap(): a poisoned mutex
\* makes the unwrap panic before any state is looked at.
Seen(c) ==
    IF c.state = "Predetermined" THEN "Predetermined"
    ELSE IF c.poisoned THEN "Poisoned"
    ELSE c.state

\* The vocabulary of curl's output lines, with the captures of HTTP_VERSION
\* (curl.rs, lines 196-198) on it.
HttpVersionCaps(line) ==
    CASE line = "HTTP/1.1 200 OK" -> Some(200)
      [] line = "HTTP/1.1 500 Internal Server Error" -> Some(500)
      [] OTHER -> None

\* CommandOutput::interpret_command_output of the output type `T`:
\* [panic, res]. `res` is meaningless when the interpretation panics.
\*   curl: CurlOutput (curl.rs), whose iter.next().unwrap() panics on no lines;
\*   apt: AptOutput (apt.rs).
Interpret(T, lines, exit_reason) ==
    IF ~ ShouldBe(exit_reason, 0).ok
    THEN [panic |-> FALSE, res |-> Err(StatusMismatch(exit_reason))]
    ELSE IF T = "curl"
    THEN IF lines = <<>>
         THEN [panic |-> TRUE, res |-> Err(StatusMismatch(exit_reason))]
         ELSE [panic |-> FALSE,
               res |-> Ok([T |-> "CurlOutput", first_line |-> Head(lines),
                           rest |-> Tail(lines)])]
    ELSE [panic |-> FALSE, res |-> Ok([T |-> "AptOutput", lines |-> lines])]

\* What a call on a cell gives back: the cell and the command history after it,
\* what it returned (None when it panicked), the state it matched on, and
\* whether it called the executor.
CallResult(c, history, ret, saw, ran, panic) ==
    [cell |-> c, history |-> history, ret |-> ret, saw |-> saw, ran |-> ran,
     panic |-> panic]

\* Exec::run, lines 124-145: the outcome `i` of interpreting the output of the
\* command that ran (`ran_command`) is stored in the cell, whose state is
\* Running. A panic of the interpretation unwinds through the MutexGuard: the
\* state stays Running and the mutex is poisoned.
StoreInterpreted(running, history, ran_command, i) ==
    IF i.panic
    THEN CallResult([running EXCEPT !.poisoned = TRUE], history, None, "Primed", TRUE, TRUE)
    ELSE IF i.res.ok
    THEN CallResult([running EXCEPT !.state = "Completed",
                                    !.raw = Some(ran_command),
                                    !.val = Some(i.res.v)],
                    history, Some(Ok(i.res.v)), "Primed", TRUE, FALSE)
    ELSE CallResult([running EXCEPT !.state = "Attempted", !.err = Some(i.res.v)],
                    history, Some(Err(i.res.v)), "Primed", TRUE, FALSE)

\* Exec::run, lines 120-145: what becomes of the cell, whose state is Running,
\* when run_and_store has returned `r`.
StoreRun(running, r, T) ==
    IF ~ r.res.ok
    THEN CallResult([running EXCEPT !.state = "Attempted", !.err = Some(r.res.v)],
                    r.history, Some(Err(r.res.v)), "Primed", TRUE, FALSE)
    ELSE StoreInterpreted(running, r.history, r.res.v,
                          Interpret(T, r.res.v.stdout_lines, r.res.v.exit_reason))

\* Exec::run when the state is Primed: replace the state by Running, run the
\* command, interpret its output, store the outcome.
RunPrimed(c, history, o, T) ==
    StoreRun([c EXCEPT !.state = "Running", !.cmd = None],
             RunAndStore(history, c.cmd[1], o), T)

\* Exec::run, with `o` what the process does should it be started.
ExecRun(c, history, o, T) ==
    CASE Seen(c) = "Predetermined" ->
            CallResult(c, history, Some(Ok(c.val[1])), Seen(c), FALSE, FALSE)
      [] Seen(c) = "Poisoned" ->
            CallResult(c, history, None, Seen(c), FALSE, TRUE)
      [] Seen(c) = "Primed" -> RunPrimed(c, history, o, T)
      [] Seen(c) = "Running" ->
            CallResult([c EXCEPT !.poisoned = TRUE], history, None, Seen(c), FALSE, TRUE)
      [] Seen(c) = "Completed" ->
            IF c.val # None
            THEN CallResult(c, history, Some(Ok(c.val[1])), Seen(c), FALSE, FALSE)
            ELSE CallResult([c EXCEPT !.poisoned = TRUE], history, None, Seen(c), FALSE, TRUE)
      [] Seen(c) = "Attempted" ->
            CallResult(c, history, Some(Err(c.err[1])), Seen(c), FALSE, FALSE)

\* Exec::run_raw, lines 177-194: what becomes of the cell, whose state is
\* Running, when run_and_store has returned `r`.
StoreRunRaw(running, r) ==
    IF r.res.ok
    THEN CallResult([running EXCEPT !.state = "Completed", !.raw = Some(r.res.v)],
                    r.history, Some(Ok(r.res.v)), "Primed", TRUE, FALSE)
    ELSE CallResult([running EXCEPT !.state = "Attempted", !.err = Some(r.res.v)],
                    r.history, Some(Err(r.res.v)), "Primed", TRUE, FALSE)

\* Exec::run_raw when the state is Primed.
RunRawPrimed(c, history, o) ==
    StoreRunRaw([c EXCEPT !.state = "Running", !.cmd = None],
                RunAndStore(history, c.cmd[1], o))

\* Faulty variant of ExecRunRaw: a Completed cell runs its command again
\* instead of answering from the stored RanCommand.
ExecRunRawAgain(c, history, o) ==
    CASE Seen(c) = "Predetermined" ->
            CallResult(c, history, None, Seen(c), FALSE, TRUE)
      [] Seen(c) = "Poisoned" ->
            CallResult(c, history, None, Seen(c), FALSE, TRUE)
      [] Seen(c) = "Primed" -> RunRawPrimed(c, history, o)
      [] Seen(c) = "Running" ->
            CallResult([c EXCEPT !.poisoned = TRUE], history, None, Seen(c), FALSE, TRUE)
      [] Seen(c) = "Completed" ->
            RunRawPrimed([c EXCEPT !.cmd = Some(c.raw[1].invocation)], history, o)
      [] Seen(c) = "Attempted" ->
            CallResult(c, history, Some(Err(c.err[1])), Seen(c), FALSE, FALSE)

\* Exec::run_raw
ExecRunRaw(c, history, o) ==
    CASE Seen(c) = "Predetermined" ->
            CallResult(c, history, None, Seen(c), FALSE, TRUE)
      [] Seen(c) = "Poisoned" ->
            CallResult(c, history, None, Seen(c), FALSE, TRUE)
      [] Seen(c) = "Primed" -> RunRawPrimed(c, history, o)
      [] Seen(c) = "Running" ->
            CallResult([c EXCEPT !.poisoned = TRUE], history, None, Seen(c), FALSE, TRUE)
      [] Seen(c) = "Completed" ->
            CallResult(c, history, Some(Ok(c.raw[1])), Seen(c), FALSE, FALSE)
      [] Seen(c) = "Attempted" ->
            CallResult(c, history, Some(Err(c.err[1])), Seen(c), FALSE, FALSE)

\* Exec::into_command: [command, saw]. mutex.into_inner().unwrap() panics on a
\* poisoned mutex.
IntoCommand(c) ==
    CASE Seen(c) = "Predetermined" -> [command |-> None, saw |-> Seen(c), panic |-> FALSE]
      [] Seen(c) = "Poisoned" -> [command |-> None, saw |-> Seen(c), panic |-> TRUE]
      [] Seen(c) = "Primed" -> [command |-> c.cmd, saw |-> Seen(c), panic |-> FALSE]
      [] OTHER -> [command |-> None, saw |-> Seen(c), panic |-> FALSE]

----
\* spec_commands/src: the command adapters.

\* What a query of an adapter gives back: the adapter after it and the call it
\* made on a cell.
Query(adapter, call) == [adapter |-> adapter, call |-> call]

\* Faulty variant of Queried: the query drops the entry it has consulted.
QueriedEvicting(adapter, key, call) ==
    Query([adapter EXCEPT !.results = [k \in (DOMAIN @) \ {key} |-> @[k]]], call)

\* The query of an adapter that keeps its cells in the map `results`, when the
\* call on the cell of `key` gave `call`.
Queried(adapter, key, call) ==
    Query([adapter EXCEPT !.results[key] = call.cell], call)

\* Indexing a map by a key it does not hold (self.results[key]), or unwrapping
\* an exec that is None, panics.
NoCell(history) == CallResult(Actual([prog |-> "", args |-> <<>>], 0), history,
                              None, "Missing", FALSE, TRUE)

\* shell.rs: ShellCommand::create, with the default shell and no aliases.
ShellCreate == [shell_binary |-> "sh", results |-> EmptyMap]

ShellCmd(shell, invocation) ==
    [prog |-> shell.shell_binary, args |-> <<"-c", invocation>>]

\* Faulty variant of ShellPrime: the contains_key test is left out, so a
\* prime replaces the cell of a key the map already holds.
ShellPrimeAlways(shell, invocation, id) ==
    [shell EXCEPT !.results =
        MapInsert(@, invocation, Actual(ShellCmd(shell, invocation), id))]

\* shell.rs: ShellCommand::prime (RunShell)
ShellPrime(shell, invocation, id) ==
    IF invocation \notin DOMAIN shell.results
    THEN [shell EXCEPT !.results =
              MapInsert(@, invocation, Actual(ShellCmd(shell, invocation), id))]
    ELSE shell

\* shell.rs: ShellCommand::run_command (RunShell)
ShellRunCommand(shell, history, invocation, o) ==
    IF invocation \notin DOMAIN shell.results
    THEN Query(shell, NoCell(history))
    ELSE Queried(shell, invocation, ExecRunRaw(shell.results[invocation], history, o))

\* curl.rs: CurlCommand::create
CurlCreate == [results |-> EmptyMap]

\* curl.rs: CurlCommand::curl_cmd
CurlCmd(request, print_body) ==
    [prog |-> "curl",
     args |-> <<"-XGET", "--max-time", "5", IF print_body THEN "-i" ELSE "--head",
                "--user-agent", "specsheet", request>>]

\* Faulty variant of CurlPrime: the contains_key test is left out.
CurlPrimeAlways(curl, request, print_body, id) ==
    [curl EXCEPT !.results =
        MapInsert(@, request, Actual(CurlCmd(request, print_body), id))]

\* curl.rs: CurlCommand::prime (RunHttp)
CurlPrime(curl, request, print_body, id) ==
    IF request \notin DOMAIN curl.results
    THEN [curl EXCEPT !.results =
              MapInsert(@, request, Actual(CurlCmd(request, print_body), id))]
    ELSE curl

\* curl.rs: CurlCommand::get_response (RunHttp)
CurlGetResponse(curl, history, request, o) ==
    IF request \notin DOMAIN curl.results
    THEN Query(curl, NoCell(history))
    ELSE Queried(curl, request, ExecRun(curl.results[request], history, o, "curl"))

\* src/commands.rs: GlobalOptions::command, for the key `key_name` of the
\* global options `map` (a key is mapped to the lines of its value).
GlobalOptionsCommand(map, key_name, T) ==
    IF key_name \in DOMAIN map
    THEN IF Interpret(T, map[key_name], Status(0)).res.ok
         THEN Some(Predetermined(key_name, Interpret(T, map[key_name], Status(0)).res.v))
         ELSE None
    ELSE None

\* apt.rs: AptCommand::create
AptCreate(global_options) ==
    [exec |-> GlobalOptionsCommand(global_options, "apt.output", "apt")]

\* apt.rs: apt_list_installed_cmd
AptListInstalledCmd == [prog |-> "apt", args |-> <<"list", "--installed">>]

\* Faulty variant of AptPrime: the is_none test is left out.
AptPrimeAlways(apt, id) == [apt EXCEPT !.exec = Some(Actual(AptListInstalledCmd, id))]

\* apt.rs: AptCommand::prime (RunApt)
AptPrime(apt, id) ==
    IF apt.exec = None
    THEN [apt EXCEPT !.exec = Some(Actual(AptListInstalledCmd, id))]
    ELSE apt

\* The vocabulary of apt's output lines: the package whose name the line
\* starts with, and the second space-separated word of the line.
AptLinePackage(line) ==
    CASE line = "p1/now 1.0 amd64 [installed]" -> "p1"
      [] line = "p2/now 2.0 amd64 [installed]" -> "p2"
      [] OTHER -> ""

AptLineVersion(line) ==
    CASE line = "p1/now 1.0 amd64 [installed]" -> "1.0"
      [] line = "p2/now 2.0 amd64 [installed]" -> "2.0"
      [] OTHER -> ""

\* apt.rs: AptOutput::find_package
RECURSIVE AptOutputFindPackage(_, _)
AptOutputFindPackage(lines, package_name) ==
    IF lines = <<>> THEN None
    ELSE IF AptLinePackage(Head(lines)) = package_name
    THEN Some(AptLineVersion(Head(lines)))
    ELSE AptOutputFindPackage(Tail(lines), package_name)

\* apt.rs: AptCommand::find_package (RunApt): the call on the cell; the
\* package is then looked up in what the call returned.
AptQueried(apt, call) == Query([apt EXCEPT !.exec = Some(call.cell)], call)

AptFindPackage(apt, history, o) ==
    IF apt.exec = None
    THEN Query(apt, NoCell(history))
    ELSE AptQueried(apt, ExecRun(apt.exec[1], history, o, "apt"))

\* files.rs: FilesystemNonCommand::create
FilesCreate == [exists |-> EmptyMap, files |-> EmptyMap, contents |-> EmptyMap,
                targets |-> EmptyMap]

\* A Mutex<Option<_>> slot of the filesystem adapter.
Slot(id) == [id |-> id, val |-> None]

\* files.rs: FilesystemNonCommand::prime (LookupFile). BTreeMap::insert
\* replaces the value of a key the map already holds.
FilesPrime(fs, path, follow, id) ==
    IF <<path, follow>> \notin DOMAIN fs.files
    THEN [exists |-> MapInsert(fs.exists, path, Slot(id)),
          files |-> MapInsert(fs.files, <<path, follow>>, Slot(id)),
          contents |-> MapInsert(fs.contents, path, Slot(id)),
          targets |-> MapInsert(fs.targets, path, Slot(id))]
    ELSE fs

\* Option::get_or_insert_with
GetOrInsertWith(slot, v) == IF slot.val = None THEN [slot EXCEPT !.val = Some(v)] ELSE slot

\* files.rs: does_file_exist, when the path's existence is `world` now.
FilesDoesFileExist(fs, path, world) ==
    [fs EXCEPT !.exists[path] = GetOrInsertWith(@, world)]

\* files.rs: lookup_file, run on a path that exists.
FilesLookupFile(fs, path, follow) ==
    [fs EXCEPT !.files[<<path, follow>>] = GetOrInsertWith(@, TRUE)]

\* src/commands.rs: Commands::from_global_options
FromGlobalOptions(global_options) ==
    [apt |-> AptCreate(global_options), curl |-> CurlCreate,
     files |-> FilesCreate, shell |-> ShellCreate]

----
\* spec_checks/src: the checks. A check result is Passed(what), Failed(what)
\* or CommandError(what).

Passed(what) == [r |-> "Passed", what |-> what]
Failed(what) == [r |-> "Failed", what |-> what]
CommandError(e) == [r |-> "CommandError", what |-> e.err]

\* Faulty variant of CheckResultPassed: a command error counts as a pass.
CheckResultNotFailed(result) == result.r # "Failed"

\* check.rs: CheckResult::passed
CheckResultPassed(result) == result.r = "Passed"

\* What evaluating a check gives back: the results, the call it made on a
\* cell (if any), the command history after it, and whether it panicked.
Checked(history, results, call, panic) ==
    [history |-> history, results |-> results, call |-> call, panic |-> panic]

\* A check whose call on the cell panicked has no results.
Unwound(call) == Checked(call.history, <<>>, Some(call), TRUE)

\* A check and the adapter it left behind.
After(adapter, checked) == [adapter |-> adapter, checked |-> checked]

\* command/cmd.rs: CommandCheck::check, lines 198-245, of a check with no
\* stdout or stderr matcher, when run_command gave `call`.
CmdResults(c, call) ==
    IF call.panic THEN Unwound(call)
    ELSE IF ~ call.ret[1].ok
    THEN Checked(call.history, <<Failed("No")>>, Some(call), FALSE)
    ELSE Checked(call.history,
                 <<Passed("CommandWasExecuted")>> \o
                 (IF c.status # None
                  THEN IF ExitReasonIs(call.ret[1].v.exit_reason, c.status[1])
                       THEN <<Passed("StatusCodeMatches")>>
                       ELSE <<Failed("ExitReasonMismatch")>>
                  ELSE <<>>),
                 Some(call), FALSE)

AfterQuery(c, q) == After(q.adapter, CmdResults(c, q.call))

\* command/cmd.rs: CommandCheck::check
CmdCheck(c, shell, history, o) ==
    AfterQuery(c, ShellRunCommand(shell, history, c.invocation, o))

\* The vocabulary of TAP output lines, with the captures of COUNT_LINE
\* (command/tap.rs, lines 129-133): the second number, if the line matches.
CountLineCaps(line) ==
    CASE line = "1..1" -> Some(1)
      [] line = "1..2" -> Some(2)
      [] OTHER -> None

\* The captures of RESULT_LINE (command/tap.rs, lines 136-144): whether `not`
\* was captured, and the test number.
ResultLineCaps(line) ==
    CASE line = "ok 1" -> Some([not |-> FALSE, number |-> 1])
      [] line = "not ok 1" -> Some([not |-> TRUE, number |-> 1])
      [] line = "ok 2" -> Some([not |-> FALSE, number |-> 2])
      [] OTHER -> None

\* command/tap.rs: one turn of the loop over the lines in TapCheck::check.
TapLine(st, line) ==
    IF CountLineCaps(line) # None
    THEN IF st.results = <<>>
         THEN [st EXCEPT !.expected_count = CountLineCaps(line)]
         ELSE [st EXCEPT !.panic = TRUE]
    ELSE IF ResultLineCaps(line) # None
    THEN [st EXCEPT !.test_count = @ + 1,
                    !.results = Append(@, IF ResultLineCaps(line)[1].not
                                          THEN Failed("TestFailed")
                                          ELSE Passed("TestPassed"))]
    ELSE [st EXCEPT !.results = Append(@, Failed("UnparseableLine"))]

RECURSIVE TapLines(_, _)
TapLines(st, lines) ==
    IF lines = <<>> \/ st.panic THEN st
    ELSE TapLines(TapLine(st, Head(lines)), Tail(lines))

\* command/tap.rs: TapCheck::check, lines 115-124: the results after the
\* loop, which left `st`.
TapCounted(st) ==
    [panic |-> st.panic,
     results |-> IF st.expected_count # None
                 THEN IF st.test_count = st.expected_count[1]
                      THEN Append(st.results, Passed("CorrectNumber"))
                      ELSE Append(st.results, Failed("IncorrectNumber"))
                 ELSE st.results]

\* command/tap.rs: the results TapCheck::check makes of the lines of a
\* command that ran: [results, panic].
TapResults(lines) ==
    TapCounted(TapLines([results |-> <<>>, expected_count |-> None,
                         test_count |-> 0, panic |-> FALSE], lines))

TapChecked(call, t) == Checked(call.history, t.results, Some(call), t.panic)

\* command/tap.rs: TapCheck::check, lines 76-124, when run_command gave `call`.
TapCallResults(call) ==
    IF call.panic THEN Unwound(call)
    ELSE IF ~ call.ret[1].ok
    THEN Checked(call.history, <<Failed("CommandFailed")>>, Some(call), FALSE)
    ELSE TapChecked(call, TapResults(call.ret[1].v.stdout_lines))

TapAfterQuery(q) == After(q.adapter, TapCallResults(q.call))

\* command/tap.rs: TapCheck::check
TapCheck(c, shell, history, o) ==
    TapAfterQuery(ShellRunCommand(shell, history, c.invocation, o))

\* curl.rs: CurlOutput::status
CurlOutputStatus(rs) == HttpVersionCaps(rs.first_line)

\* network/http.rs: HttpCheck::status_result
StatusResult(expected_status, got_status) ==
    IF got_status = expected_status
    THEN Passed("StatusMatch") ELSE Failed("StatusMismatch")

\* curl.rs 141-146 and 186-193: CurlOutput::body: the lines after the first
\* empty line, joined. The outputs of the model have one body line at most.
RECURSIVE BodyLines(_)
BodyLines(lines) ==
    IF lines = <<>> THEN <<>>
    ELSE IF Head(lines) = "" THEN Tail(lines)
    ELSE BodyLines(Tail(lines))

CurlOutputBody(rs) == IF BodyLines(rs.rest) = <<>> THEN "" ELSE Head(BodyLines(rs.rest))

\* network/http.rs 466-478 and contents.rs 222-243: body_result, for the
\* matchers ShouldBeEmpty and ShouldBeNonEmpty.
BodyResult(body, body_matcher) ==
    IF (body_matcher = "ShouldBeEmpty") = (body = "")
    THEN Passed("ContentsPass") ELSE Failed("ContentsFail")

\* network/http.rs: HttpCheck::check, lines 301-347, of a check of the status
\* and of a body that is not empty (`c.body`), when get_response gave `call`.
HttpResults(c, call) ==
    IF call.panic THEN Unwound(call)
    ELSE IF ~ call.ret[1].ok
    THEN Checked(call.history, <<CommandError(call.ret[1].v)>>, Some(call), FALSE)
    ELSE IF CurlOutputStatus(call.ret[1].v) = None
    THEN Checked(call.history, <<Failed("HttpFailed")>>, Some(call), FALSE)
    ELSE Checked(call.history,
                 <<Passed("HttpSucceeded")>>
                 \o (IF c.status # None
                     THEN <<StatusResult(c.status[1], CurlOutputStatus(call.ret[1].v)[1])>>
                     ELSE <<>>)
                 \o (IF c.body
                     THEN <<BodyResult(CurlOutputBody(call.ret[1].v), "ShouldBeNonEmpty")>>
                     ELSE <<>>),
                 Some(call), FALSE)

HttpAfterQuery(c, q) == After(q.adapter, HttpResults(c, q.call))

\* network/http.rs: HttpCheck::check
HttpCheck(c, curl, history, o) ==
    HttpAfterQuery(c, CurlGetResponse(curl, history, c.url, o))

\* local/apt.rs: AptCheck::check, lines 185-212, of a check of any version,
\* when the package was looked up and found to be `package`.
AptResults(c, package) ==
    IF c.condition = "Installed"
    THEN IF package # None THEN <<Passed("IsInstalled")>> ELSE <<Failed("IsMissing")>>
    ELSE IF package # None THEN <<Failed("IsPresent")>> ELSE <<Passed("IsMissing")>>

\* local/apt.rs: AptCheck::check, lines 181-212, when the call of
\* find_package on the cell gave `call`.
AptCallResults(c, call) ==
    IF call.panic THEN Unwound(call)
    ELSE IF ~ call.ret[1].ok
    THEN Checked(call.history, <<CommandError(call.ret[1].v)>>, Some(call), FALSE)
    ELSE Checked(call.history,
                 AptResults(c, AptOutputFindPackage(call.ret[1].v.lines, c.package_name)),
                 Some(call), FALSE)

AptAfterQuery(c, q) == After(q.adapter, AptCallResults(c, q.call))

\* local/apt.rs: AptCheck::check
AptCheck(c, apt, history, o) == AptAfterQuery(c, AptFindPackage(apt, history, o))

\* local/fs.rs: FilesystemCheck::check, lines 447-470, of a check with no
\* metadata checks, when does_file_exist has left the adapter as `fs`.
FsResults(c, fs, history) ==
    IF c.condition = "Exists" /\ fs.exists[c.input_path].val[1]
    THEN After(FilesLookupFile(fs, c.input_path, c.follow),
               Checked(history, <<Passed("FileExists")>>, None, FALSE))
    ELSE After(fs, Checked(history,
                           IF c.condition = "Exists" THEN <<Failed("FileIsMissing")>>
                           ELSE IF fs.exists[c.input_path].val[1]
                           THEN <<Failed("FileExists")>>
                           ELSE <<Passed("FileIsMissing")>>,
                           None, FALSE))

\* local/fs.rs: FilesystemCheck::check, when the path's existence is `world`
\* now.
FsCheck(c, files, history, world) ==
    FsResults(c, FilesDoesFileExist(files, c.input_path, world), history)

----
\* src/set.rs and spec_checks/src/load.rs: check documents and check sets.

\* The order in which a CheckDocument (a BTreeMap keyed by the type name)
\* yields its tables.
TypeOrder == <<"apt", "cmd", "fs", "http", "tap", "zzz">>

\* The check types read_toml knows (the read_check_type! list).
KnownTypes == {"apt", "cmd", "fs", "http", "tap"}

\* The order of the keys of the adapters' maps.
KeyOrder == <<"s1", "s2", "u1">>

\* load.rs: a CheckEntry, with whether its table fits the schema of its type.
\* Its tags are None, or the set of the tags of Tags::One or Tags::Many.
Entry(valid, check) == [valid |-> valid, check |-> check, tags |-> None]

Tagged(entry, tags) == [entry EXCEPT !.tags = Some(tags)]

Cmd(invocation, status) == [type |-> "cmd", invocation |-> invocation, status |-> status]
Tap(invocation) == [type |-> "tap", invocation |-> invocation]
Http(url, status, body) == [type |-> "http", url |-> url, status |-> status, body |-> body]
Apt(package_name, condition) ==
    [type |-> "apt", package_name |-> package_name, condition |-> condition]
Fs(input_path, follow, condition) ==
    [type |-> "fs", input_path |-> input_path, follow |-> follow, condition |-> condition]

\* Faulty variant of ReadCheck: a table is taken as it is, valid or not.
ReadCheckAnyway(check_key, entry) == Ok(entry.check)

\* <Check>::read of a table of type `check_key`: the check, or an error when
\* the table does not fit the schema of the type or the type is unknown.
ReadCheck(check_key, entry) ==
    IF check_key \in KnownTypes /\ entry.valid
    THEN Ok(entry.check) ELSE Err([name |-> check_key])

\* read_toml's loop over the entries of one table.
RECURSIVE ReadEntries(_, _, _)
ReadEntries(set, check_key, entries) ==
    IF entries = <<>> THEN set
    ELSE LET r == ReadCheck(check_key, Head(entries))
         IN  ReadEntries(IF r.ok THEN [set EXCEPT !.checks = Append(@, r.v)]
                                 ELSE [set EXCEPT !.errors = Append(@, r.v)],
                         check_key, Tail(entries))

\* read_toml's loop over the tables of the document, in key order.
RECURSIVE ReadTables(_, _, _)
ReadTables(set, keys, check_document) ==
    IF keys = <<>> THEN set
    ELSE ReadTables(IF Head(keys) \in DOMAIN check_document
                    THEN ReadEntries(set, Head(keys), check_document[Head(keys)])
                    ELSE set,
                    Tail(keys), check_document)

\* CheckSet::read_toml, with no filter: the checks of the set after it and
\* the errors it returns.
ReadToml(set_checks, check_document) ==
    ReadTables([checks |-> set_checks, errors |-> <<>>], TypeOrder, check_document)

----
\* src/filter.rs, and read_toml with a filter.

TagsFilter(tags, skip_tags) == [tags |-> tags, skip_tags |-> skip_tags]
TypesFilter(types, skip_types) == [types |-> types, skip_types |-> skip_types]
Filter(tags, types, order) == [tags |-> tags, types |-> types, order |-> order]

\* Filter::default()
DefaultFilter == Filter(TagsFilter({}, {}), TypesFilter({}, {}), "ByType")

\* Faulty variant of ShouldIncludeTags: the skip list is looked at last.
ShouldIncludeTagsAllowFirst(f, tags) ==
    IF f.tags = {} THEN f.skip_tags \cap tags = {}
    ELSE f.tags \cap tags # {}

\* filter.rs: TagsFilter::should_include_tags
ShouldIncludeTags(f, tags) ==
    IF \E t1 \in f.skip_tags : \E t2 \in tags : t1 = t2 THEN FALSE
    ELSE IF f.tags = {} THEN TRUE
    ELSE \E t1 \in f.tags : \E t2 \in tags : t1 = t2

\* filter.rs: TypesFilter::should_include_type
ShouldIncludeType(f, ct) ==
    IF \E t \in f.skip_types : t = ct THEN FALSE
    ELSE IF f.types = {} THEN TRUE
    ELSE \E t \in f.types : t = ct

\* set.rs 89-98: tag_ok of an entry
TagOk(f, entry) ==
    IF entry.tags # None THEN ShouldIncludeTags(f.tags, entry.tags[1])
    ELSE ShouldIncludeTags(f.tags, {})

\* set.rs 88-162: read_toml's loop over the entries of one table, with the
\* entries the tag filter skips left out.
ReadEntriesWith(set, f, check_key, entries) ==
    ReadEntries(set, check_key, SelectSeq(entries, LAMBDA e : TagOk(f, e)))

\* SliceRandom::shuffle: every order the shuffle can leave the checks in.
ShuffleOutcomes(s) ==
    {[i \in DOMAIN s |-> s[p[i]]] : p \in Permutations(DOMAIN s)}

\* set.rs 164-167: after a table is read the whole list is shuffled, if the
\* order is Random.
Shuffled(order, set) ==
    IF order = "Random"
    THEN {[set EXCEPT !.checks = c, !.shuffles = @ + 1] : c \in ShuffleOutcomes(set.checks)}
    ELSE {set}

\* set.rs 81-168: one turn of read_toml's loop over the tables.
ReadTableWith(set, f, check_key, check_document) ==
    IF ~ ShouldIncludeType(f.types, check_key) THEN {set}
    ELSE Shuffled(f.order, ReadEntriesWith(set, f, check_key, check_document[check_key]))

\* read_toml's loop over the tables, from each set of `sets`.
RECURSIVE ReadTablesWith(_, _, _, _)
ReadTablesWith(sets, f, keys, check_document) ==
    IF keys = <<>> THEN sets
    ELSE ReadTablesWith(IF Head(keys) \in DOMAIN check_document
                        THEN UNION {ReadTableWith(s, f, Head(keys), check_document) :
                                       s \in sets}
                        ELSE sets,
                        f, Tail(keys), check_document)

\* CheckSet::read_toml: every outcome it can have, each with the checks of
\* the set after it, the errors it returns and the times it shuffled.
ReadTomlWith(set_checks, f, check_document) ==
    ReadTablesWith({[checks |-> set_checks, errors |-> <<>>, shuffles |-> 0]},
                   f, TypeOrder, check_document)

\* <Check>::load: the check primes the adapter it will consult.
LoadCheck(c, cmds, id) ==
    CASE c.type \in {"cmd", "tap"} ->
            [cmds EXCEPT !.shell = ShellPrime(@, c.invocation, id)]
      [] c.type = "http" -> [cmds EXCEPT !.curl = CurlPrime(@, c.url, c.body, id)]
      [] c.type = "apt" -> [cmds EXCEPT !.apt = AptPrime(@, id)]
      [] c.type = "fs" -> [cmds EXCEPT !.files = FilesPrime(@, c.input_path, c.follow, id)]

\* Faulty variant of PrimeSweepDone: the sweep stops after the first check.
PrimeSweepDoneEarly(i, set_checks) == i > 1 \/ i > Len(set_checks)

\* The loop of CheckSet::prime_commands is over once every check is loaded.
PrimeSweepDone(i, set_checks) == i > Len(set_checks)

\* The Commands set when a check has left the adapter of field `field` as
\* `a.adapter`, with what the check gave back.
InCommands(cmds, field, a) ==
    [commands |-> [cmds EXCEPT ![field] = a.adapter], checked |-> a.checked]

\* set.rs 312-336: <Check>::check on the adapter of the check's type, with `o`
\* what the world does if the check consults it.
CheckCheck(c, cmds, history, o) ==
    CASE c.type = "cmd" -> InCommands(cmds, "shell", CmdCheck(c, cmds.shell, history, o))
      [] c.type = "tap" -> InCommands(cmds, "shell", TapCheck(c, cmds.shell, history, o))
      [] c.type = "http" -> InCommands(cmds, "curl", HttpCheck(c, cmds.curl, history, o))
      [] c.type = "apt" -> InCommands(cmds, "apt", AptCheck(c, cmds.apt, history, o))
      [] c.type = "fs" -> InCommands(cmds, "files", FsCheck(c, cmds.files, history, o))

\* The adapter and the key of the cell a check consults.
CellOf(c) ==
    CASE c.type \in {"cmd", "tap"} -> [adapter |-> "shell", key |-> c.invocation]
      [] c.type = "http" -> [adapter |-> "curl", key |-> c.url]
      [] c.type = "apt" -> [adapter |-> "apt", key |-> ""]
      [] c.type = "fs" -> [adapter |-> "files", key |-> c.input_path]

\* results.iter().all(CheckResult::passed)
AllPassed(results) == \A i \in DOMAIN results : CheckResultPassed(results[i])

\* src/terminal_ui.rs: print_check
PrintCheck(c, results) == [check |-> c, passed |-> AllPassed(results), results |-> results]

\* src/results.rs: ResultMessage, as run_base_check makes it of a result.
ResultMessage(e) ==
    CASE e.r = "Passed" -> [kind |-> "Passed", text |-> e.what]
      [] e.r = "Failed" -> [kind |-> "Failed", text |-> e.what]
      [] e.r = "CommandError" -> [kind |-> "Error", text |-> e.what]

\* src/set.rs: results_to_output! of run_base_check
CheckOutput(c, results) ==
    [passed |-> AllPassed(results),
     results |-> [i \in DOMAIN results |-> ResultMessage(results[i])],
     message |-> c]

\* spec_analysis/src/property.rs: DataPoint
DataPoint(kind, value) == [kind |-> kind, value |-> value]
InvolvesPath(path) == DataPoint("InvolvesPath", path)
InvolvesUser(user) == DataPoint("InvolvesUser", user)
InvolvesGroup(group) == DataPoint("InvolvesGroup", group)

\* spec_analysis/src/table.rs: AnalysisTable::new
NewTable == [paths |-> EmptyMap, users |-> EmptyMap, groups |-> EmptyMap]

MatchingChecks == [passes |-> <<>>, fails |-> <<>>]

\* table.rs 58-66: one arm of the match of `add`: the bucket of the value is
\* made if it is not there, and the check is pushed on its passes or fails.
Pushed(index, value, check, passed) ==
    LET entry == IF value \in DOMAIN index THEN index[value] ELSE MatchingChecks
    IN  MapInsert(index, value,
                  IF passed THEN [entry EXCEPT !.passes = Append(@, check)]
                            ELSE [entry EXCEPT !.fails = Append(@, check)])

\* Faulty variant of AddPoint: a check that passed is pushed on the fails.
AddPointAsFailed(t, check, prop, passed) ==
    CASE prop.kind = "InvolvesPath" ->
            [t EXCEPT !.paths = Pushed(@, prop.value, check, FALSE)]
      [] prop.kind = "InvolvesUser" ->
            [t EXCEPT !.users = Pushed(@, prop.value, check, FALSE)]
      [] prop.kind = "InvolvesGroup" ->
            [t EXCEPT !.groups = Pushed(@, prop.value, check, FALSE)]

\* table.rs 56-88: one turn of the loop of `add`.
AddPoint(t, check, prop, passed) ==
    CASE prop.kind = "InvolvesPath" ->
            [t EXCEPT !.paths = Pushed(@, prop.value, check, passed)]
      [] prop.kind = "InvolvesUser" ->
            [t EXCEPT !.users = Pushed(@, prop.value, check, passed)]
      [] prop.kind = "InvolvesGroup" ->
            [t EXCEPT !.groups = Pushed(@, prop.value, check, passed)]

\* table.rs 55-89: AnalysisTable::add
RECURSIVE Add(_, _, _, _)
Add(t, check, properties, passed) ==
    IF properties = <<>> THEN t
    ELSE Add(AddPoint(t, check, Head(properties), passed), check,
             Tail(properties), passed)

\* local/fs.rs 401-416: FilesystemCheck::properties, of a check that names no
\* owner and no group; a check of another type has none.
Properties(c) == IF c.type = "fs" THEN <<InvolvesPath(c.input_path)>> ELSE <<>>

\* set.rs 232-241: run_all adds the check to the table.
TableAdd(t, c, passed) == Add(t, c, Properties(c), passed)

\* A Correlation.
Correlation(property, count) == [property |-> property, count |-> count]

\* table.rs 97-104 (107-114, 117-124): the correlations of one index, in
\* every order the iteration over the HashMap can have.
IndexCorrelations(index, kind) ==
    LET found == {Correlation(DataPoint(kind, v), Len(index[v].fails)) :
                     v \in {x \in DOMAIN index : /\ index[x].passes = <<>>
                                                  /\ index[x].fails # <<>>}}
    IN  {s \in [1 .. Cardinality(found) -> found] : Range(s) = found}

\* table.rs 93-127: AnalysisTable::resolve_correlations: every Vec it can
\* return.
ResolveCorrelations(t) ==
    {p \o u \o g : p \in IndexCorrelations(t.paths, "InvolvesPath"),
                   u \in IndexCorrelations(t.users, "InvolvesUser"),
                   g \in IndexCorrelations(t.groups, "InvolvesGroup")}

\* src/set.rs: the totals of run_all
Totals(check_outputs) ==
    [check_count |-> 0,
     pass_count |-> Cardinality({i \in DOMAIN check_outputs : check_outputs[i].passed}),
     fail_count |-> Cardinality({i \in DOMAIN check_outputs : ~ check_outputs[i].passed}),
     err_count |-> 0]

\* src/results.rs: ResultsSection::failed
SectionFailed(section) == section.totals.fail_count > 0 \/ section.totals.err_count > 0

----
\* The inputs of the model: documents, options, and what the world does.

Source(loads, document) == [loads |-> loads, document |-> document]

DocA == Source(TRUE, [k \in {"cmd", "tap"} |->
                        IF k = "cmd" THEN <<Entry(TRUE, Cmd("s1", Some(0)))>>
                        ELSE <<Entry(TRUE, Tap("s1"))>>])

DocB == Source(TRUE, [k \in {"http", "apt"} |->
                        IF k = "http"
                        THEN <<Entry(TRUE, Http("u1", Some(200), FALSE)),
                               Entry(TRUE, Http("u1", None, TRUE))>>
                        ELSE <<Entry(TRUE, Apt("p1", "Installed"))>>])

DocC == Source(TRUE, [k \in {"fs", "cmd"} |->
                        IF k = "fs"
                        THEN <<Entry(TRUE, Fs("f1", TRUE, "Exists")),
                               Entry(TRUE, Fs("f1", FALSE, "Missing"))>>
                        ELSE <<Entry(FALSE, Cmd("s2", None))>>])

DocD == Source(TRUE, [k \in {"tap", "apt", "zzz"} |->
                        IF k = "tap" THEN <<Tagged(Entry(TRUE, Tap("s2")), {"blue"})>>
                        ELSE IF k = "apt"
                        THEN <<Tagged(Entry(TRUE, Apt("p2", "Missing")), {"blue", "red"})>>
                        ELSE <<Entry(TRUE, Tap("s1"))>>])

\* An input that cannot be read or parsed.
Unreadable == Source(FALSE, EmptyMap)

Sources == {DocA, DocB, DocC, DocD, Unreadable}

InputLists == UNION {[1..n -> Sources] : n \in 1..MaxFiles}

\* CheckingOptions and EndingOptions. The delay is "RunInstantly" or "Wait";
\* result_documents is whether a result document is to be written.
Opts(process, perform_analysis, global_options, delay, result_documents) ==
    [process |-> process, perform_analysis |-> perform_analysis,
     global_options |-> global_options, delay |-> delay,
     result_documents |-> result_documents]

PlainOpts == Opts(FALSE, FALSE, EmptyMap, "RunInstantly", FALSE)

Invocation(m, o, f) == [mode |-> m, options |-> o, filter |-> f]

AptOverride == [k \in {"apt.output"} |-> <<"p1/now 1.0 amd64 [installed]">>]

\* The invocations with the default filter, in the modes that end.
Invocations ==
    {Invocation("run", PlainOpts, DefaultFilter),
     Invocation("run", Opts(TRUE, TRUE, AptOverride, "Wait", TRUE), DefaultFilter),
     Invocation("list", PlainOpts, DefaultFilter),
     Invocation("list", Opts(FALSE, FALSE, AptOverride, "RunInstantly", FALSE),
                DefaultFilter),
     Invocation("syntax", PlainOpts, DefaultFilter),
     Invocation("list_checks", PlainOpts, DefaultFilter),
     Invocation("list_tags", PlainOpts, DefaultFilter),
     Invocation("invalid", PlainOpts, DefaultFilter)}

\* A document with tags: an untagged check, checks under one tag and under
\* two, and a check that does not fit its schema.
DocE == Source(TRUE, [k \in {"cmd", "fs", "tap"} |->
                        IF k = "cmd"
                        THEN <<Entry(TRUE, Cmd("s1", Some(0))),
                               Tagged(Entry(FALSE, Cmd("s2", None)), {"red"})>>
                        ELSE IF k = "fs"
                        THEN <<Tagged(Entry(TRUE, Fs("f1", TRUE, "Exists")), {"green"})>>
                        ELSE <<Tagged(Entry(TRUE, Tap("s1")), {"blue", "green"}),
                               Tagged(Entry(TRUE, Tap("s2")), {"blue", "red"})>>])

Filters ==
    {Filter(TagsFilter({"blue"}, {}), TypesFilter({}, {}), "ByType"),
     Filter(TagsFilter({}, {"red"}), TypesFilter({}, {}), "ByType"),
     Filter(TagsFilter({"blue", "green"}, {"red"}), TypesFilter({}, {}), "ByType"),
     Filter(TagsFilter({}, {}), TypesFilter({"cmd", "fs"}, {}), "ByType"),
     Filter(TagsFilter({}, {}), TypesFilter({"tap", "fs"}, {"tap"}), "ByType"),
     Filter(TagsFilter({}, {}), TypesFilter({}, {}), "Random"),
     Filter(TagsFilter({"green"}, {}), TypesFilter({}, {"cmd"}), "Random")}

WaitOpts == Opts(FALSE, FALSE, EmptyMap, "Wait", FALSE)

\* A document with one check of a path, which follows links.
DocF == Source(TRUE, [k \in {"fs"} |-> <<Entry(TRUE, Fs("f1", TRUE, "Exists"))>>])

\* A side process is to run during the checks.
SideOpts == Opts(TRUE, FALSE, EmptyMap, "RunInstantly", FALSE)

Program(invocation, input_list) == [invocation |-> invocation, inputs |-> input_list]

\* The programs of the model: the invocations with the default filter and
\* continual mode on every list of inputs, runs under a filter or in random
\* order on one input, continual mode with a side process on one input, and
\* a run of two inputs that check one path, the first without the second's
\* check that does not follow links.
Programs ==
    {Program(inv, l) :
        inv \in Invocations \cup {Invocation("continual", PlainOpts, DefaultFilter)},
        l \in InputLists}
    \cup {Program(Invocation(m, WaitOpts, f), <<d>>) :
             m \in {"run", "continual"}, f \in Filters, d \in Sources \cup {DocE}}
    \cup {Program(Invocation("continual", SideOpts, DefaultFilter), <<DocA>>)}
    \cup {Program(Invocation("run", PlainOpts, DefaultFilter), <<DocF, DocC>>)}

ShellWorld ==
    {SpawnFail, WaitFailAfter(<<"1..1", "ok 1">>),
     Exits(Status(0), <<>>),
     Exits(Status(0), <<"1..1", "ok 1">>),
     Exits(Status(1), <<"1..2", "not ok 1">>),
     Exits(Status(0), <<"ok 1", "1..1">>),
     Exits(Signal(9), <<"junk">>)}

CurlWorld ==
    {SpawnFail, WaitFail, WaitFailAfter(<<"HTTP/1.1 200 OK">>),
     Exits(Status(0), <<>>),
     Exits(Status(0), <<"HTTP/1.1 200 OK">>),
     Exits(Status(0), <<"HTTP/1.1 500 Internal Server Error", "Server: x">>),
     Exits(Status(0), <<"junk">>),
     Exits(Status(7), <<>>)}

AptWorld ==
    {StdoutFail,
     Exits(Status(0), <<"p1/now 1.0 amd64 [installed]">>),
     Exits(Status(0), <<>>),
     Exits(Status(100), <<>>)}

World(c) ==
    CASE c.type \in {"cmd", "tap"} -> ShellWorld
      [] c.type = "http" -> CurlWorld
      [] c.type = "apt" -> AptWorld
      [] c.type = "fs" -> BOOLEAN

----
\* src/main.rs: run.

\* An entry of spawnLog: who started the process (the executor, for the cell
\* of `adapter` and `key`, or the side process launcher), and where `run` was.
Spawned(by, at, where) ==
    [by |-> by, adapter |-> at.adapter, key |-> at.key, phase |-> where.phase,
     file |-> where.file, primed |-> where.primed, loaded |-> where.loaded]

Here == [phase |-> pc, file |-> fileIdx, primed |-> primed, loaded |-> Len(checks)]

\* An entry of calls: the operation, the cell it was called on, the state it
\* matched on, whether it called the executor, what it returned, by how much
\* the command history grew during it, and the input being run.
Called(op, at, call, history, file) ==
    [op |-> op, adapter |-> at.adapter, key |-> at.key, saw |-> call.saw,
     ran |-> call.ran, ret |-> call.ret, id |-> call.cell.id,
     grew |-> Len(call.history) - Len(history), file |-> file]

OpOf(c) == IF c.type \in {"cmd", "tap"} THEN "run_raw" ELSE "run"

\* The state of `main` once getopts has returned, for the program `prog`.
ProgStart(prog) ==
    /\ mode = prog.invocation.mode
    /\ options = prog.invocation.options
    /\ filter = prog.invocation.filter
    /\ inputs = prog.inputs
    /\ pc = CASE mode = "run" -> "start"
           [] mode = "invalid" -> "main"
           [] OTHER -> "load"
    /\ fileIdx = 1
    /\ checks = <<>>
    /\ idx = 1
    /\ primed = 0
    /\ commands = FromGlobalOptions(options.global_options)
    /\ nextId = 1
    /\ executor = <<>>
    /\ spawnLog = <<>>
    /\ calls = <<>>
    /\ outputs = <<>>
    /\ uiLog = <<>>
    /\ table = None
    /\ sections = <<>>
    /\ listed = <<>>
    /\ side = "none"
    /\ file_errored = FALSE
    /\ checks_have_failed = FALSE
    /\ shuffles = 0
    /\ sleeps = <<>>
    /\ first = TRUE
    /\ pass = 0
    /\ exit_code = None

ProgInit == \E inv \in Invocations : \E l \in InputLists : ProgStart(Program(inv, l))

\* main.rs 143-148: the side process, if there is one, is started.
Start ==
    /\ pc = "start"
    /\ pc' = "load"
    /\ side' = IF options.process THEN "running" ELSE side
    /\ spawnLog' = IF options.process
                   THEN Append(spawnLog, Spawned("side", [adapter |-> "", key |-> ""], Here))
                   ELSE spawnLog
    /\ UNCHANGED <<mode, options, inputs, fileIdx, checks, idx, primed, commands,
                   nextId, executor, calls, outputs, uiLog, table, sections,
                   listed, file_errored, checks_have_failed>>
    /\ UNCHANGED <<filter, shuffles, sleeps, first, pass, exit_code>>

\* main.rs 151-183: the next input is loaded and read into a new check set.
LoadInput ==
    /\ mode = "run" /\ pc = "load" /\ fileIdx <= Len(inputs)
    /\ IF ~ inputs[fileIdx].loads
       THEN /\ file_errored' = TRUE
            /\ fileIdx' = fileIdx + 1
            /\ table' = None
            /\ UNCHANGED <<pc, checks, idx, primed, outputs, uiLog, shuffles, sleeps>>
       ELSE \E r \in ReadTomlWith(<<>>, filter, inputs[fileIdx].document) :
            /\ file_errored' = (file_errored \/ r.errors # <<>>)
            /\ checks' = r.checks
            /\ shuffles' = r.shuffles
            /\ table' = IF options.perform_analysis THEN Some(NewTable) ELSE None
            /\ pc' = "prime"
            /\ idx' = 1
            /\ primed' = 0
            /\ outputs' = <<>>
            /\ uiLog' = <<>>
            /\ sleeps' = <<>>
            /\ UNCHANGED fileIdx
    /\ UNCHANGED <<mode, options, inputs, commands, nextId, executor, spawnLog,
                   calls, sections, listed, side, checks_have_failed>>
    /\ UNCHANGED <<filter, first, pass, exit_code>>

\* set.rs 184-211: one turn of the loop of prime_commands.
PrimeStep ==
    /\ pc = "prime" /\ ~ PrimeSweepDone(idx, checks)
    /\ commands' = LoadCheck(checks[idx], commands, nextId)
    /\ nextId' = nextId + 1
    /\ idx' = idx + 1
    /\ primed' = primed + 1
    /\ UNCHANGED <<mode, options, inputs, pc, fileIdx, checks, executor, spawnLog,
                   calls, outputs, uiLog, table, sections, listed, side,
                   file_errored, checks_have_failed>>
    /\ UNCHANGED <<filter, shuffles, sleeps, first, pass, exit_code>>

\* main.rs 194-195: prime_commands returns and run_all begins.
PrimeDone ==
    /\ mode = "run" /\ pc = "prime" /\ PrimeSweepDone(idx, checks)
    /\ pc' = "check"
    /\ idx' = 1
    /\ first' = TRUE
    /\ UNCHANGED <<mode, options, inputs, fileIdx, checks, primed, commands, nextId,
                   executor, spawnLog, calls, outputs, uiLog, table, sections,
                   listed, side, file_errored, checks_have_failed>>
    /\ UNCHANGED <<filter, shuffles, sleeps, pass, exit_code>>

\* set.rs 292-307: results_to_output!, of what the check `c` gave back.
ResultsToOutput(c, k) ==
    [commands |-> k.commands, checked |-> k.checked,
     printed |-> PrintCheck(c, k.checked.results),
     check_output |-> CheckOutput(c, k.checked.results)]

\* set.rs 291-338: run_base_check
RunBaseCheck(c, cmds, history, o) ==
    ResultsToOutput(c, CheckCheck(c, cmds, history, o))

\* set.rs 230-245: the rest of a turn of the loop of run_all, when
\* run_base_check gave `b`. A panic ends the program.
RunAllTurn(c, b) ==
    /\ commands' = b.commands
    /\ executor' = b.checked.history
    /\ calls' = IF b.checked.call # None
                THEN Append(calls, Called(OpOf(c), CellOf(c), b.checked.call[1],
                                         executor, fileIdx))
                ELSE calls
    /\ spawnLog' = IF b.checked.call # None /\ b.checked.call[1].ran
                   THEN Append(spawnLog, Spawned("executor", CellOf(c), Here))
                   ELSE spawnLog
    /\ IF b.checked.panic
       THEN /\ pc' = "panicked"
            /\ UNCHANGED <<idx, outputs, uiLog, table>>
       ELSE /\ uiLog' = Append(uiLog, b.printed)
            /\ outputs' = Append(outputs, b.check_output)
            /\ table' = IF table # None
                        THEN Some(TableAdd(table[1], c, b.check_output.passed))
                        ELSE table
            /\ idx' = idx + 1
            /\ UNCHANGED pc

\* An entry of sleeps: a sleep before or after the check at `i` of the set.
Slept(when, i) == [when |-> when, check |-> i]

\* set.rs 221-228: the delay at the head of a turn of run_all's loop, with
\* `first` as the loop found it: whether it sleeps, and `first` after it.
RunAllDelay(delay, is_first) ==
    IF delay = "Wait"
    THEN IF is_first THEN [sleep |-> TRUE, first |-> is_first]
         ELSE [sleep |-> FALSE, first |-> FALSE]
    ELSE [sleep |-> FALSE, first |-> is_first]

\* set.rs 220-246: one turn of the loop of run_all.
CheckStep ==
    /\ mode = "run" /\ pc = "check" /\ idx <= Len(checks)
    /\ sleeps' = IF RunAllDelay(options.delay, first).sleep
                 THEN Append(sleeps, Slept("before", idx)) ELSE sleeps
    /\ first' = RunAllDelay(options.delay, first).first
    /\ \E o \in World(checks[idx]) :
         RunAllTurn(checks[idx], RunBaseCheck(checks[idx], commands, executor, o))
    /\ UNCHANGED <<mode, options, inputs, fileIdx, checks, primed, nextId, sections,
                   listed, side, file_errored, checks_have_failed>>
    /\ UNCHANGED <<filter, shuffles, pass, exit_code>>

\* set.rs 248-256 and main.rs 197-222: run_all returns the section; it is
\* recorded and the loop goes on to the next input.
EndSection ==
    /\ mode = "run" /\ pc = "check" /\ idx > Len(checks)
    /\ LET section == [check_outputs |-> outputs, totals |-> Totals(outputs)]
       IN  /\ checks_have_failed' = (checks_have_failed \/ SectionFailed(section))
           /\ sections' = Append(sections, [input |-> fileIdx, results |-> section])
    /\ fileIdx' = fileIdx + 1
    /\ pc' = "load"
    /\ UNCHANGED <<mode, options, inputs, checks, idx, primed, commands, nextId,
                   executor, spawnLog, calls, outputs, uiLog, table, listed, side,
                   file_errored>>
    /\ UNCHANGED <<filter, shuffles, sleeps, first, pass, exit_code>>

\* doc.rs: whether DocumentPaths::write can return Ok (TRUE) or Err (FALSE).
\* With no document to write it returns Ok.
WriteOutcomes(result_documents) == IF result_documents THEN BOOLEAN ELSE {TRUE}

\* main.rs 224-248: after the last input the side process is stopped and the
\* result documents are written.
Finish ==
    /\ mode = "run" /\ pc = "load" /\ fileIdx > Len(inputs)
    /\ side' = IF side = "running" THEN "stopped" ELSE side
    /\ \E written \in WriteOutcomes(options.result_documents) :
         file_errored' = (file_errored \/ ~ written)
    /\ pc' = "done"
    /\ UNCHANGED <<mode, options, inputs, fileIdx, checks, idx, primed, commands,
                   nextId, executor, spawnLog, calls, outputs, uiLog, table,
                   sections, listed, checks_have_failed>>
    /\ UNCHANGED <<filter, shuffles, sleeps, first, pass, exit_code>>

\* main.rs 318-333 (and 254-271): the input at fileIdx is loaded and read
\* into the one check set of all the inputs.
ReadInto ==
    IF ~ inputs[fileIdx].loads
    THEN /\ file_errored' = TRUE
         /\ UNCHANGED <<checks, shuffles>>
    ELSE \E r \in ReadTomlWith(checks, filter, inputs[fileIdx].document) :
         /\ file_errored' = (file_errored \/ r.errors # <<>>)
         /\ checks' = r.checks
         /\ shuffles' = r.shuffles

\* main.rs 318-333: list-commands reads every input into one check set.
ListLoadInput ==
    /\ mode = "list" /\ pc = "load" /\ fileIdx <= Len(inputs)
    /\ ReadInto
    /\ fileIdx' = fileIdx + 1
    /\ UNCHANGED <<mode, options, inputs, pc, idx, primed, commands, nextId,
                   executor, spawnLog, calls, outputs, uiLog, table, sections,
                   listed, side, checks_have_failed>>
    /\ UNCHANGED <<filter, sleeps, first, pass, exit_code>>

\* main.rs 336-338: list-commands goes on to prime the commands.
ListBeginPrime ==
    /\ mode = "list" /\ pc = "load" /\ fileIdx > Len(inputs)
    /\ pc' = "prime"
    /\ idx' = 1
    /\ primed' = 0
    /\ UNCHANGED <<mode, options, inputs, fileIdx, checks, commands, nextId,
                   executor, spawnLog, calls, outputs, uiLog, table, sections,
                   listed, side, file_errored, checks_have_failed>>
    /\ UNCHANGED <<filter, shuffles, sleeps, first, pass, exit_code>>

SortedKeys(m) == SelectSeq(KeyOrder, LAMBDA k : k \in DOMAIN m)

\* src/commands.rs: the cells that list_commands consumes, in its order: apt,
\* curl, shell (the filesystem adapter has none).
ListedCells(cmds) ==
    (IF cmds.apt.exec # None
     THEN <<[adapter |-> "apt", key |-> "", cell |-> cmds.apt.exec[1]]>> ELSE <<>>)
    \o [i \in DOMAIN SortedKeys(cmds.curl.results) |->
          [adapter |-> "curl", key |-> SortedKeys(cmds.curl.results)[i],
           cell |-> cmds.curl.results[SortedKeys(cmds.curl.results)[i]]]]
    \o [i \in DOMAIN SortedKeys(cmds.shell.results) |->
          [adapter |-> "shell", key |-> SortedKeys(cmds.shell.results)[i],
           cell |-> cmds.shell.results[SortedKeys(cmds.shell.results)[i]]]]

\* src/commands.rs: Commands::list_commands
ListCommandsOf(cmds) ==
    Flatten([i \in DOMAIN ListedCells(cmds) |-> IntoCommand(ListedCells(cmds)[i].cell).command])

\* main.rs 338-342: the commands are listed.
ListCommands ==
    /\ mode = "list" /\ pc = "prime" /\ PrimeSweepDone(idx, checks)
    /\ LET cells == ListedCells(commands)
       IN  /\ listed' = ListCommandsOf(commands)
           /\ calls' = calls \o
                  [i \in DOMAIN cells |->
                      [op |-> "into_command", adapter |-> cells[i].adapter,
                       key |-> cells[i].key, saw |-> IntoCommand(cells[i].cell).saw,
                       ran |-> FALSE, ret |-> None, id |-> cells[i].cell.id,
                       grew |-> 0, file |-> fileIdx]]
           /\ pc' = IF \E i \in DOMAIN cells : IntoCommand(cells[i].cell).panic
                    THEN "panicked" ELSE "done"
    /\ UNCHANGED <<mode, options, inputs, fileIdx, checks, idx, primed, commands,
                   nextId, executor, spawnLog, outputs, uiLog, table, sections,
                   side, file_errored, checks_have_failed>>
    /\ UNCHANGED <<filter, shuffles, sleeps, first, pass, exit_code>>

\* The order of the tags in a BTreeSet of tags.
TagOrder == <<"blue", "green", "red">>

\* The tags of every entry of a document.
DocumentTags(check_document) ==
    UNION {IF check_document[k][i].tags # None THEN check_document[k][i].tags[1] ELSE {} :
             <<k, i>> \in {<<k, i>> \in (DOMAIN check_document) \X (1 .. 3) :
                              i \in DOMAIN check_document[k]}}

\* main.rs 286-311: syntax-check loads and reads the next input.
SyntaxCheckInput ==
    /\ mode = "syntax" /\ pc = "load" /\ fileIdx <= Len(inputs)
    /\ IF ~ inputs[fileIdx].loads
       THEN /\ file_errored' = TRUE
            /\ UNCHANGED <<checks, shuffles>>
       ELSE \E r \in ReadTomlWith(<<>>, filter, inputs[fileIdx].document) :
            /\ file_errored' = (file_errored \/ r.errors # <<>>)
            /\ checks' = r.checks
            /\ shuffles' = r.shuffles
    /\ fileIdx' = fileIdx + 1
    /\ UNCHANGED <<mode, options, filter, inputs, pc, idx, primed, commands, nextId,
                   executor, spawnLog, calls, outputs, uiLog, table, sections,
                   listed, side, checks_have_failed, sleeps, first, pass, exit_code>>

\* main.rs 345-368: list-checks loads and reads the next input and prints its
\* checks. Read errors are printed and nothing else is done about them.
ListChecksInput ==
    /\ mode = "list_checks" /\ pc = "load" /\ fileIdx <= Len(inputs)
    /\ IF ~ inputs[fileIdx].loads
       THEN /\ file_errored' = TRUE
            /\ UNCHANGED <<checks, shuffles, listed>>
       ELSE \E r \in ReadTomlWith(<<>>, filter, inputs[fileIdx].document) :
            /\ UNCHANGED file_errored
            /\ checks' = r.checks
            /\ shuffles' = r.shuffles
            /\ listed' = listed \o r.checks
    /\ fileIdx' = fileIdx + 1
    /\ UNCHANGED <<mode, options, filter, inputs, pc, idx, primed, commands, nextId,
                   executor, spawnLog, calls, outputs, uiLog, table, sections,
                   side, checks_have_failed, sleeps, first, pass, exit_code>>

\* main.rs 370-402: list-tags loads the next input and collects the tags of
\* its entries in all_tags (kept in `listed`, in the order of the BTreeSet).
ListTagsInput ==
    /\ mode = "list_tags" /\ pc = "load" /\ fileIdx <= Len(inputs)
    /\ IF ~ inputs[fileIdx].loads
       THEN /\ file_errored' = TRUE
            /\ UNCHANGED listed
       ELSE /\ UNCHANGED file_errored
            /\ listed' = SelectSeq(TagOrder,
                             LAMBDA tag : tag \in Range(listed)
                                           \cup DocumentTags(inputs[fileIdx].document))
    /\ fileIdx' = fileIdx + 1
    /\ UNCHANGED <<mode, options, filter, inputs, pc, checks, idx, primed, commands,
                   nextId, executor, spawnLog, calls, outputs, uiLog, table,
                   sections, side, checks_have_failed, shuffles, sleeps, first,
                   pass, exit_code>>

\* The loop over the inputs of syntax-check, list-checks or list-tags ends.
InputsDone ==
    /\ mode \in {"syntax", "list_checks", "list_tags"}
    /\ pc = "load" /\ fileIdx > Len(inputs)
    /\ pc' = "done"
    /\ UNCHANGED <<mode, options, filter, inputs, fileIdx, checks, idx, primed,
                   commands, nextId, executor, spawnLog, calls, outputs, uiLog,
                   table, sections, listed, side, file_errored, checks_have_failed,
                   shuffles, sleeps, first, pass, exit_code>>

\* main.rs 418-431: the exit codes.
SUCCESS == 0
CHECKS_HAVE_FAILED == 1
FILE_ERROR == 2
OPTIONS_ERROR == 3

\* main.rs 405-413: the value `run` returns.
ExitCodeOf(errored, failed) ==
    IF errored THEN FILE_ERROR
    ELSE IF failed THEN CHECKS_HAVE_FAILED
    ELSE SUCCESS

\* main.rs 70-72 and 405-414: `run` returns and the process exits with the
\* value it returned.
Exit ==
    /\ pc = "done"
    /\ exit_code' = Some(ExitCodeOf(file_errored, checks_have_failed))
    /\ pc' = "exited"
    /\ UNCHANGED <<mode, options, filter, inputs, fileIdx, checks, idx, primed,
                   commands, nextId, executor, spawnLog, calls, outputs, uiLog,
                   table, sections, listed, side, file_errored, checks_have_failed,
                   shuffles, sleeps, first, pass>>

\* main.rs 101-109: getopts refused the options, and the process exits.
OptionsError ==
    /\ mode = "invalid" /\ pc = "main"
    /\ exit_code' = Some(OPTIONS_ERROR)
    /\ pc' = "exited"
    /\ UNCHANGED <<mode, options, filter, inputs, fileIdx, checks, idx, primed,
                   commands, nextId, executor, spawnLog, calls, outputs, uiLog,
                   table, sections, listed, side, file_errored, checks_have_failed,
                   shuffles, sleeps, first, pass>>

----
\* src/main.rs 250-284: continual mode.

\* main.rs 254-271: the next input is loaded and read into the one check set.
ContinualLoadInput ==
    /\ mode = "continual" /\ pc = "load" /\ fileIdx <= Len(inputs)
    /\ ReadInto
    /\ fileIdx' = fileIdx + 1
    /\ UNCHANGED <<mode, options, filter, inputs, pc, idx, primed, commands, nextId,
                   executor, spawnLog, calls, outputs, uiLog, table, sections,
                   listed, side, checks_have_failed, sleeps, first, pass, exit_code>>

\* main.rs 273-275: an input did not load or a check did not read, and `run`
\* returns FILE_ERROR before the loop.
ContinualFileError ==
    /\ mode = "continual" /\ pc = "load" /\ fileIdx > Len(inputs)
    /\ file_errored
    /\ exit_code' = Some(FILE_ERROR)
    /\ pc' = "exited"
    /\ UNCHANGED <<mode, options, filter, inputs, fileIdx, checks, idx, primed,
                   commands, nextId, executor, spawnLog, calls, outputs, uiLog,
                   table, sections, listed, side, file_errored, checks_have_failed,
                   shuffles, sleeps, first, pass>>

\* main.rs 277-281: a turn of the loop begins, after the inputs are read or
\* after the batch before it: a new Executor and a new Commands set are
\* made. The cells of the Commands set before it are dropped, and so are the
\* records of the calls and processes of the pass before.
ContinualBeginPass ==
    /\ mode = "continual"
    /\ \/ pc = "load" /\ fileIdx > Len(inputs) /\ ~ file_errored
       \/ pc = "check" /\ idx > Len(checks)
    /\ executor' = <<>>
    /\ commands' = FromGlobalOptions(options.global_options)
    /\ nextId' = 1
    /\ pc' = "prime"
    /\ idx' = 1
    /\ primed' = 0
    /\ pass' = IF pass < MaxPasses THEN pass + 1 ELSE pass
    /\ spawnLog' = <<>>
    /\ calls' = <<>>
    /\ uiLog' = <<>>
    /\ sleeps' = <<>>
    /\ UNCHANGED <<mode, options, filter, inputs, fileIdx, checks, outputs, table,
                   sections, listed, side, file_errored, checks_have_failed,
                   shuffles, first, exit_code>>

\* set.rs 260-263: run_continual_batch begins, and shuffles the checks if the
\* order is Random.
ContinualBatchBegin ==
    /\ mode = "continual" /\ pc = "prime" /\ PrimeSweepDone(idx, checks)
    /\ checks' \in (IF filter.order = "Random" THEN ShuffleOutcomes(checks) ELSE {checks})
    /\ pc' = "check"
    /\ idx' = 1
    /\ UNCHANGED <<mode, options, filter, inputs, fileIdx, primed, commands, nextId,
                   executor, spawnLog, calls, outputs, uiLog, table, sections,
                   listed, side, file_errored, checks_have_failed, shuffles,
                   sleeps, first, pass, exit_code>>

\* set.rs 265-271: the rest of a turn of the loop of run_continual_batch,
\* when run_base_check gave `b`: its output is dropped, and the delay is
\* slept. A panic ends the program.
ContinualTurn(c, b) ==
    /\ commands' = b.commands
    /\ executor' = b.checked.history
    /\ calls' = IF b.checked.call # None
                THEN Append(calls, Called(OpOf(c), CellOf(c), b.checked.call[1],
                                         executor, fileIdx))
                ELSE calls
    /\ spawnLog' = IF b.checked.call # None /\ b.checked.call[1].ran
                   THEN Append(spawnLog, Spawned("executor", CellOf(c), Here))
                   ELSE spawnLog
    /\ IF b.checked.panic
       THEN /\ pc' = "panicked"
            /\ UNCHANGED <<idx, uiLog, sleeps>>
       ELSE /\ uiLog' = Append(uiLog, b.printed)
            /\ sleeps' = IF options.delay = "Wait"
                         THEN Append(sleeps, Slept("after", idx)) ELSE sleeps
            /\ idx' = idx + 1
            /\ UNCHANGED pc

\* set.rs 265-271: one turn of the loop of run_continual_batch.
ContinualCheckStep ==
    /\ mode = "continual" /\ pc = "check" /\ idx <= Len(checks)
    /\ \E o \in World(checks[idx]) :
         ContinualTurn(checks[idx], RunBaseCheck(checks[idx], commands, executor, o))
    /\ UNCHANGED <<mode, options, filter, inputs, fileIdx, checks, primed, nextId,
                   outputs, table, sections, listed, side, file_errored,
                   checks_have_failed, shuffles, first, pass, exit_code>>

----
\* Callers of one cell that run at the same time: Exec::run and Exec::run_raw
\* step by step, with the cell's mutex.

Callers == 1 .. MaxCallers

\* The caller that consumes the cell (into_command) once the others are through.
Owner == 0

Ops == {[op |-> "run", T |-> "curl"], [op |-> "run", T |-> "apt"],
        [op |-> "run_raw", T |-> "raw"]}

OpWorld(o) ==
    CASE o.T = "curl" -> CurlWorld
      [] o.T = "apt" -> AptWorld
      [] o.T = "raw" -> ShellWorld

ConcInit ==
    /\ cop \in Ops
    /\ cell \in {Actual(AptListInstalledCmd, 1)} \cup
                (IF cop.T = "apt"
                 THEN {Predetermined("apt.output", [T |-> "AptOutput", lines |-> <<>>])}
                 ELSE {})
    /\ lock = 0
    /\ cpc = [i \in {Owner} \cup Callers |-> "idle"]
    /\ cret = [i \in {Owner} \cup Callers |-> None]
    /\ csaw = [i \in {Owner} \cup Callers |-> ""]
    /\ cexecs = <<>>

\* mutex.lock() returns once no other caller holds the mutex.
LockFree(l) == l = 0

\* The whole call, on a cell that is not mid-call.
WholeCall(c, o) ==
    IF cop.op = "run" THEN ExecRun(c, <<>>, o, cop.T) ELSE ExecRunRaw(c, <<>>, o)

\* exec.rs 94-102 (154-162): a Predetermined cell is answered at once;
\* otherwise the caller takes the lock, and panics if it is poisoned.
CallEnter(i) ==
    /\ cpc[i] = "idle"
    /\ IF Seen(cell) = "Predetermined"
       THEN LET r == WholeCall(cell, SpawnFail)
            IN  /\ cpc' = [cpc EXCEPT ![i] = IF r.panic THEN "panicked" ELSE "done"]
                /\ cret' = [cret EXCEPT ![i] = r.ret]
                /\ csaw' = [csaw EXCEPT ![i] = r.saw]
                /\ UNCHANGED lock
       ELSE /\ LockFree(lock)
            /\ IF Seen(cell) = "Poisoned"
               THEN /\ cpc' = [cpc EXCEPT ![i] = "panicked"]
                    /\ csaw' = [csaw EXCEPT ![i] = "Poisoned"]
                    /\ UNCHANGED lock
               ELSE /\ cpc' = [cpc EXCEPT ![i] = "locked"]
                    /\ lock' = i
                    /\ UNCHANGED csaw
            /\ UNCHANGED cret
    /\ UNCHANGED <<cop, cell, cexecs>>

\* exec.rs 104-118 (164-175): the match on the state, and the mem::replace
\* that leaves Running behind when the state is Primed.
CallMatch(i) ==
    /\ cpc[i] = "locked"
    /\ csaw' = [csaw EXCEPT ![i] = Seen(cell)]
    /\ IF Seen(cell) = "Primed"
       THEN /\ cell' = [cell EXCEPT !.state = "Running"]
            /\ cpc' = [cpc EXCEPT ![i] = "running"]
            /\ UNCHANGED <<lock, cret>>
       ELSE LET r == WholeCall(cell, SpawnFail)
            IN  /\ cell' = r.cell
                /\ cret' = [cret EXCEPT ![i] = r.ret]
                /\ cpc' = [cpc EXCEPT ![i] = IF r.panic THEN "panicked" ELSE "done"]
                /\ lock' = 0
    /\ UNCHANGED <<cop, cexecs>>

\* exec.rs 120-145 (177-194): the command is run and the outcome stored; the
\* guard is dropped on return and on unwinding.
CallExecute(i) ==
    /\ cpc[i] = "running"
    /\ \E o \in OpWorld(cop) :
         LET r == WholeCall([cell EXCEPT !.state = "Primed"], o)
         IN  /\ cell' = r.cell
             /\ cret' = [cret EXCEPT ![i] = r.ret]
             /\ cpc' = [cpc EXCEPT ![i] = IF r.panic THEN "panicked" ELSE "done"]
    /\ cexecs' = Append(cexecs, i)
    /\ lock' = 0
    /\ UNCHANGED <<cop, csaw>>

\* exec.rs 202-218: into_command, by the owner of the cell when no call is
\* in progress any more.
OwnerIntoCommand ==
    /\ cpc[Owner] = "idle"
    /\ \A i \in Callers : cpc[i] \in {"done", "panicked"}
    /\ csaw' = [csaw EXCEPT ![Owner] = IntoCommand(cell).saw]
    /\ cpc' = [cpc EXCEPT ![Owner] = IF IntoCommand(cell).panic THEN "panicked" ELSE "done"]
    /\ UNCHANGED <<cop, cell, lock, cret, cexecs>>

----
\* The analysis table alone: calls of add and of resolve_correlations.

\* The most calls of `add` on one table.
MaxAdds == 3

\* The properties a check can have: a filesystem check has its path, and its
\* owner and group when it names them; a user check has its user; a group
\* check has its group.
PropertyLists ==
    {<<InvolvesPath("/etc/x")>>,
     <<InvolvesPath("/etc/y")>>,
     <<InvolvesPath("/etc/x"), InvolvesUser("root")>>,
     <<InvolvesPath("/etc/y"), InvolvesUser("root"), InvolvesGroup("wheel")>>,
     <<InvolvesUser("admin")>>,
     <<InvolvesGroup("wheel")>>}

\* An entry of `added`: a call of `add`.
Addition(check, properties, passed) ==
    [check |-> check, properties |-> properties, passed |-> passed]

AnaInit == atable = NewTable /\ added = <<>> /\ corals = None

\* set.rs 232-241: a check that has been run is added to the table with its
\* properties and with whether it passed. Every check is added once.
AnalysisAdd ==
    /\ Len(added) < MaxAdds
    /\ \E properties \in PropertyLists : \E passed \in BOOLEAN :
          /\ atable' = Add(atable, Len(added) + 1, properties, passed)
          /\ added' = Append(added, Addition(Len(added) + 1, properties, passed))
    /\ corals' = None
    /\ UNCHANGED httpVars

\* main.rs 209-210: the correlations of the table are resolved.
AnalysisResolve ==
    /\ corals = None
    /\ \E found \in ResolveCorrelations(atable) : corals' = Some(found)
    /\ UNCHANGED <<atable, added, httpVars>>

\* No table is being filled.
AnaIdle == AnaInit

----
\* An HTTP check alone: HttpCheck::check on what get_response gives.

\* network/http.rs 31-75: an HttpCheck, with what it declares of the
\* response: status, body and the HeaderConditions.
HttpDeclared(status, content_type, redirect_to, server, encoding, body, also) ==
    [status |-> status, content_type |-> content_type, redirect_to |-> redirect_to,
     server |-> server, encoding |-> encoding, body |-> body, also |-> also]

\* network/http.rs 238-257: what the accessors of an HttpResponse give.
Response(status, content_type, location, encoding, body, headers) ==
    [status |-> status, content_type |-> content_type, location |-> location,
     encoding |-> encoding, body |-> body, headers |-> headers]

\* The names of the other headers, in the order of the BTreeMap `also`.
HeaderOrder == <<"X-A", "X-B">>

\* The name of a result that is about the header `h`.
WithHeader(what, h) ==
    CASE what = "HeaderMatch" /\ h = "X-A" -> "HeaderMatch(X-A)"
      [] what = "HeaderMatch" /\ h = "X-B" -> "HeaderMatch(X-B)"
      [] what = "HeaderMismatch" /\ h = "X-A" -> "HeaderMismatch(X-A)"
      [] what = "HeaderMismatch" /\ h = "X-B" -> "HeaderMismatch(X-B)"
      [] what = "HeaderMissing" /\ h = "X-A" -> "HeaderMissing(X-A)"
      [] what = "HeaderMissing" /\ h = "X-B" -> "HeaderMissing(X-B)"

\* The mime crate's parse, of the content types of the model.
MimeParse(actual) ==
    CASE actual = "text/html" ->
            Ok([type |-> "text", subtype |-> "html", suffix |-> None])
      [] actual = "image/png" ->
            Ok([type |-> "image", subtype |-> "png", suffix |-> None])
      [] OTHER -> Err("invalid")

\* network/http.rs 481-483: mime_is
MimeIs(mime, one, two) == mime.type = one /\ mime.subtype = two /\ mime.suffix = None

\* network/http.rs 365-431: content_type_result, for the classes HTML and
\* PNG and for a MIME type.
ContentTypeResult(rs, check) ==
    IF check.kind = "Class"
    THEN IF rs.content_type = None THEN Failed("ContentTypeMissing")
         ELSE IF ~ MimeParse(rs.content_type[1]).ok THEN Failed("InvalidMimeType")
         ELSE IF CASE check.v = "HTML" ->
                         MimeIs(MimeParse(rs.content_type[1]).v, "text", "html")
                   [] check.v = "PNG" ->
                         MimeIs(MimeParse(rs.content_type[1]).v, "image", "png")
         THEN Passed("ContentTypeMatch")
         ELSE Failed("ContentTypeMismatch")
    ELSE IF rs.content_type = Some(check.v) THEN Passed("ContentTypeMatch")
    ELSE IF rs.content_type # None THEN Failed("ContentTypeMismatch")
    ELSE Failed("ContentTypeMissing")

\* network/http.rs 434-449: redirect_result
RedirectResult(expected_location, got_location, got_status) ==
    IF got_status < 300 /\ got_status > 303 THEN Failed("StatusMismatch")
    ELSE IF got_location # None
    THEN IF got_location[1] = expected_location
         THEN Passed("RedirectMatch") ELSE Failed("RedirectMismatch")
    ELSE Failed("RedirectMissing")

\* network/http.rs 452-464: encoding_result
EncodingResult(rs, encoding) ==
    IF rs.encoding # None
    THEN IF rs.encoding[1] = encoding
         THEN Passed("EncodingMatch") ELSE Failed("EncodingMismatch")
    ELSE Failed("EncodingMissing")

\* network/http.rs 333-345: the loop over the other headers.
RECURSIVE AlsoResults(_, _, _)
AlsoResults(also, rs, headers) ==
    IF headers = <<>> THEN <<>>
    ELSE (IF Head(headers) \notin DOMAIN also THEN <<>>
          ELSE IF Head(headers) \in DOMAIN rs.headers
          THEN IF rs.headers[Head(headers)] = also[Head(headers)]
               THEN <<Passed(WithHeader("HeaderMatch", Head(headers)))>>
               ELSE <<Failed(WithHeader("HeaderMismatch", Head(headers)))>>
          ELSE <<Failed(WithHeader("HeaderMissing", Head(headers)))>>)
         \o AlsoResults(also, rs, Tail(headers))

\* network/http.rs 306-347: the results of a response that has a status.
ResponseResults(c, rs) ==
    <<Passed("HttpSucceeded")>>
    \o (IF c.status # None THEN <<StatusResult(c.status[1], rs.status[1])>> ELSE <<>>)
    \o (IF c.content_type # None
        THEN <<ContentTypeResult(rs, c.content_type[1])>> ELSE <<>>)
    \o (IF c.redirect_to # None
        THEN <<RedirectResult(c.redirect_to[1], rs.location, rs.status[1])>> ELSE <<>>)
    \o (IF c.encoding # None THEN <<EncodingResult(rs, c.encoding[1])>> ELSE <<>>)
    \o (IF c.body # None THEN <<BodyResult(rs.body, c.body[1])>> ELSE <<>>)
    \o AlsoResults(c.also, rs, HeaderOrder)

\* network/http.rs 298-348: HttpCheck::check, when get_response gave `got`.
HttpCheckResults(c, got) ==
    IF ~ got.ok THEN <<CommandError(got.v)>>
    ELSE IF got.v.status = None THEN <<Failed("HttpFailed")>>
    ELSE ResponseResults(c, got.v)

\* The maps of other headers a check of the model declares.
AlsoMaps ==
    {EmptyMap, MapInsert(EmptyMap, "X-A", "1"), MapInsert(EmptyMap, "X-B", "1"),
     MapInsert(MapInsert(EmptyMap, "X-A", "1"), "X-B", "2")}

\* The checks of the model: every choice of what to declare.
HttpChecks ==
    {HttpDeclared(s, ct, rt, sv, en, b, al) :
        s \in {None, Some(200)},
        ct \in {None, Some([kind |-> "Class", v |-> "HTML"]),
                Some([kind |-> "MimeType", v |-> "image/png"])},
        rt \in {None, Some("u1")},
        sv \in {None, Some("nginx")},
        en \in {None, Some("gzip")},
        b \in {None, Some("ShouldBeNonEmpty")},
        al \in AlsoMaps}

\* What get_response gives in the model.
HttpResponses ==
    {Err(ExecError("Spawn")),
     Ok(Response(None, None, None, None, "", EmptyMap)),
     Ok(Response(Some(200), Some("text/html"), None, Some("gzip"), "hi",
                 MapInsert(EmptyMap, "X-A", "1"))),
     Ok(Response(Some(200), Some("junk"), None, None, "", EmptyMap)),
     Ok(Response(Some(301), None, Some("u1"), None, "",
                 MapInsert(MapInsert(EmptyMap, "X-A", "2"), "X-B", "2"))),
     Ok(Response(Some(404), Some("image/png"), Some("u2"), Some("br"), "hi",
                 EmptyMap)),
     Ok(Response(Some(200), None, Some("u1"), None, "hi", EmptyMap))}

HttpInit == hcheck \in HttpChecks /\ hresponse \in HttpResponses /\ hresults = None

\* set.rs: run_base_check calls check on the HttpCheck.
HttpCheckRun ==
    /\ hresults = None
    /\ hresults' = Some(HttpCheckResults(hcheck, hresponse))
    /\ UNCHANGED <<hcheck, hresponse, anaVars>>

\* No HTTP check is being run alone.
HttpIdle ==
    /\ hcheck = HttpDeclared(None, None, None, None, None, None, EmptyMap)
    /\ hresponse = Err(ExecError("Spawn"))
    /\ hresults = None

----
\* One batch of checks against one external system: the checks of a set are
\* primed in order and then run in order, as prime_commands and run_all do.

\* The most checks of a batch.
MaxBatch == 3

\* How the HTTP server of the batch answers: "up" and "error" answer a
\* request with a status line and headers, and with a body when the body is
\* asked for; "down" makes curl exit with 7; "silent" closes without a byte.
Servers == {"up", "error", "down", "silent"}

\* Whether curl is told to print the body (curl.rs 90-95).
AsksBody(command) == \E k \in DOMAIN command.args : command.args[k] = "-i"

\* What the process of `command` does against the server.
ServerOutcome(server, command) ==
    CASE server = "up" ->
            Exits(Status(0), <<"HTTP/1.1 200 OK", "Server: x">>
                             \o (IF AsksBody(command) THEN <<"", "hi">> ELSE <<>>))
      [] server = "error" ->
            Exits(Status(0), <<"HTTP/1.1 500 Internal Server Error", "Server: x">>
                             \o (IF AsksBody(command) THEN <<"", "hi">> ELSE <<>>))
      [] server = "down" -> Exits(Status(7), <<>>)
      [] server = "silent" -> Exits(Status(0), <<>>)

\* The checks a batch is made of.
BatchChecks ==
    {Http("u1", Some(200), FALSE), Http("u1", None, TRUE),
     Fs("f1", TRUE, "Exists"), Fs("f1", FALSE, "Missing")}

Batches == UNION {[1 .. n -> BatchChecks] : n \in 1 .. MaxBatch}

\* What the external system does when the check `c` consults it through the
\* Commands set `cmds`: the outcome of the command of the check's cell, if it
\* is still to be run, or whether the path exists.
ExternalOutcome(c, cmds, server, file) ==
    IF c.type = "fs" THEN file
    ELSE IF c.url \in DOMAIN cmds.curl.results /\ cmds.curl.results[c.url].cmd # None
    THEN ServerOutcome(server, cmds.curl.results[c.url].cmd[1])
    ELSE SpawnFail

BatchInit ==
    /\ bserver \in Servers /\ bfile \in BOOLEAN /\ bchecks \in Batches
    /\ bcommands = FromGlobalOptions(EmptyMap)
    /\ bexecutor = <<>>
    /\ bpc = "prime" /\ bidx = 1 /\ bresults = <<>>

\* set.rs 184-211: one turn of the loop of prime_commands.
BatchPrimeStep ==
    /\ bpc = "prime" /\ bidx <= Len(bchecks)
    /\ bcommands' = LoadCheck(bchecks[bidx], bcommands, bidx)
    /\ bidx' = bidx + 1
    /\ UNCHANGED <<bserver, bfile, bchecks, bexecutor, bpc, bresults>>

\* prime_commands returns and run_all begins.
BatchPrimeDone ==
    /\ bpc = "prime" /\ bidx > Len(bchecks)
    /\ bpc' = "check" /\ bidx' = 1
    /\ UNCHANGED <<bserver, bfile, bchecks, bcommands, bexecutor, bresults>>

\* The rest of a turn of run_all's loop, when run_base_check gave `b`.
BatchTurn(b) ==
    /\ bcommands' = b.commands
    /\ bexecutor' = b.checked.history
    /\ IF b.checked.panic
       THEN bpc' = "panicked" /\ UNCHANGED <<bidx, bresults>>
       ELSE /\ bresults' = Append(bresults, b.checked.results)
            /\ bidx' = bidx + 1
            /\ bpc' = IF bidx = Len(bchecks) THEN "done" ELSE "check"

\* set.rs 220-246: one turn of the loop of run_all.
BatchCheckStep ==
    /\ bpc = "check" /\ bidx <= Len(bchecks)
    /\ BatchTurn(RunBaseCheck(bchecks[bidx], bcommands, bexecutor,
                              ExternalOutcome(bchecks[bidx], bcommands, bserver, bfile)))
    /\ UNCHANGED <<bserver, bfile, bchecks>>

\* No batch is being run.
BatchIdle ==
    /\ bserver = "up" /\ bfile = TRUE /\ bchecks = <<>>
    /\ bcommands = FromGlobalOptions(EmptyMap) /\ bexecutor = <<>>
    /\ bpc = "done" /\ bidx = 1 /\ bresults = <<>>

----
\* The rewrites alone (spec_checks/src/read.rs, src/options.rs). A string is
\* the list of its parts: a path is the list of its components, with "/" for
\* the root and "~" for a leading tilde; a URL is its scheme followed by the
\* rest, piece by piece; an interface is one name beginning with "%".

\* The most --rewrite arguments of one invocation.
MaxRules == 2

\* Whether the string `p` is the start of the string `s` (str::starts_with);
\* on paths, whether `s` has the components of `p` at its head
\* (Path::strip_prefix gives Ok).
StartsWith(s, p) == Len(p) <= Len(s) /\ SubSeq(s, 1, Len(p)) = p

\* s[p.len() ..], and the rest that Path::strip_prefix gives.
StripPrefix(s, p) == SubSeq(s, Len(p) + 1, Len(s))

\* Faulty variant of HomeDir: the home directory is itself written with a
\* tilde.
HomeDirWithTilde == <<"~", "h">>

\* The home directory of the current user.
HomeDir == <<"/", "h">>

\* shellexpand::tilde: a leading "~" becomes the home directory.
ExpandTilde(path) ==
    IF path # <<>> /\ Head(path) = "~" THEN HomeDir \o Tail(path) ELSE path

\* read.rs 256-263: Rewrite
Rewrite(kind, from, to) == [kind |-> kind, from |-> from, to |-> to]

\* options.rs 519-548: parse_rewrites, the loop over the --rewrite arguments
\* `args`, with `rules` the rules added so far. An argument that is of no
\* kind ends the parsing with an error.
RECURSIVE ParseRules(_, _)
ParseRules(args, rules) ==
    IF args = <<>> THEN Ok(rules)
    ELSE LET this == Head(args).this
             that == Head(args).that
         IN  IF this # <<>> /\ Head(this) \in {"http://", "https://"}
             THEN ParseRules(Tail(args), Append(rules, Rewrite("Url", this, that)))
             ELSE IF this # <<>> /\ Head(this) = "/"
             THEN ParseRules(Tail(args), Append(rules, Rewrite("Path", this, that)))
             ELSE IF /\ this # <<>> /\ Head(this) \in {"%a", "%b", "%c"}
                     /\ that # <<>> /\ Head(that) \in {"%a", "%b", "%c"}
             THEN ParseRules(Tail(args), Append(rules, Rewrite("Interface", this, that)))
             ELSE Err([err |-> "InvalidRewriteRule", rule |-> Head(args)])

\* options.rs 519-548: parse_rewrites. The tildes are expanded.
ParseRewrites(args) ==
    IF ParseRules(args, <<>>).ok
    THEN Ok([rules |-> ParseRules(args, <<>>).v, expand_home |-> TRUE])
    ELSE ParseRules(args, <<>>)

\* The first of the rules `hits` that match the value, if there is one (the
\* `for rule in &self.rules` loops return at the first).
FirstRule(hits) == IF hits = <<>> THEN None ELSE Some(Head(hits))

\* read.rs 284-301: Rewrites::path
RewritesPath(rewrites, path) ==
    LET pb == IF rewrites.expand_home THEN ExpandTilde(path) ELSE path
        rule == FirstRule(SelectSeq(rewrites.rules,
                                    LAMBDA r : r.kind = "Path" /\ StartsWith(pb, r.from)))
    IN  IF rule = None THEN pb ELSE rule[1].to \o StripPrefix(pb, rule[1].from)

\* read.rs 303-314: Rewrites::interface
RewritesInterface(rewrites, string) ==
    LET rule == FirstRule(SelectSeq(rewrites.rules,
                                    LAMBDA r : r.kind = "Interface" /\ r.from = string))
    IN  IF rule = None THEN string ELSE rule[1].to

\* read.rs 316-328: Rewrites::url
RewritesUrl(rewrites, url) ==
    LET rule == FirstRule(SelectSeq(rewrites.rules,
                                    LAMBDA r : r.kind = "Url" /\ StartsWith(url, r.from)))
    IN  IF rule = None THEN url ELSE rule[1].to \o StripPrefix(url, rule[1].from)

\* The rewrite of a declared value of kind `kind`.
RewriteValue(rewrites, kind, string) ==
    CASE kind = "Path" -> RewritesPath(rewrites, string)
      [] kind = "Interface" -> RewritesInterface(rewrites, string)
      [] kind = "Url" -> RewritesUrl(rewrites, string)

\* The --rewrite arguments of each kind, and two that are of no kind.
RewriteArgs(kind) ==
    CASE kind = "Path" ->
            {[this |-> this, that |-> that] :
                this \in {<<"/", "a">>, <<"/", "h">>, <<"/", "a", "b">>},
                that \in {<<"/", "b">>, <<"/", "a", "b">>, <<"/", "h">>, <<"~", "a">>}}
      [] kind = "Url" ->
            {[this |-> this, that |-> that] :
                this \in {<<"http://", "a">>, <<"http://", "a", "b">>},
                that \in {<<"http://", "b">>, <<"http://", "a", "b">>, <<"https://", "a">>}}
      [] kind = "Interface" ->
            {[this |-> this, that |-> that] :
                this \in {<<"%a">>, <<"%b">>}, that \in {<<"%b">>, <<"%c">>}}
            \cup {[this |-> <<"%a">>, that |-> <<"b">>],
                  [this |-> <<"a">>, that |-> <<"/", "b">>]}

\* The declared values of each kind.
RewriteValues(kind) ==
    CASE kind = "Path" ->
            {<<root>> \o rest : root \in {"/", "~"},
                                rest \in UNION {[1..n -> {"a", "b", "h"}] : n \in 0..2}}
            \cup {<<"a">>}
      [] kind = "Url" ->
            {<<"http://">> \o rest : rest \in UNION {[1..n -> {"a", "b"}] : n \in 0..2}}
      [] kind = "Interface" -> {<<"%a">>, <<"%b">>, <<"%c">>}

RewriteInit ==
    \E kind \in {"Path", "Url", "Interface"} :
       /\ rwArgs \in UNION {[1..n -> RewriteArgs(kind)] : n \in 0..MaxRules}
       /\ rwValue \in {[kind |-> kind, string |-> s] : s \in RewriteValues(kind)}
       /\ rwOut = <<>>

\* The rewrites are applied once more: to the declared value first, and then
\* to what the application before gave.
RewriteApply ==
    /\ Len(rwOut) < 2
    /\ ParseRewrites(rwArgs).ok
    /\ rwOut' = Append(rwOut,
                       RewriteValue(ParseRewrites(rwArgs).v, rwValue.kind,
                                    IF rwOut = <<>> THEN rwValue.string
                                    ELSE rwOut[Len(rwOut)]))
    /\ UNCHANGED <<rwArgs, rwValue>>

\* No rewrite is exercised alone.
RewriteIdle ==
    /\ rwArgs = <<>> /\ rwValue = [kind |-> "Path", string |-> <<>>] /\ rwOut = <<>>

\* Neither the analysis table, an HTTP check, a batch nor the rewrites are
\* exercised alone.
UnitIdle == AnaIdle /\ HttpIdle /\ BatchIdle /\ RewriteIdle

----
\* The specifications.

\* Before the program runs, no caller is mid-call on the shared cell.
ConcIdle ==
    /\ cop = [op |-> "run", T |-> "apt"]
    /\ cell = Actual(AptListInstalledCmd, 1)
    /\ lock = 0
    /\ cpc = [i \in {Owner} \cup Callers |-> "idle"]
    /\ cret = [i \in {Owner} \cup Callers |-> None]
    /\ csaw = [i \in {Owner} \cup Callers |-> ""]
    /\ cexecs = <<>>

\* The program at its start, for the callers of one cell.
ProgIdle ==
    /\ mode = "run" /\ options = PlainOpts /\ filter = DefaultFilter
    /\ inputs = <<Unreadable>>
    /\ shuffles = 0 /\ sleeps = <<>> /\ first = TRUE /\ pass = 0 /\ exit_code = None
    /\ pc = "start"
    /\ fileIdx = 1 /\ checks = <<>> /\ idx = 1 /\ primed = 0
    /\ commands = FromGlobalOptions(options.global_options)
    /\ nextId = 1 /\ executor = <<>> /\ spawnLog = <<>> /\ calls = <<>>
    /\ outputs = <<>> /\ uiLog = <<>> /\ table = None /\ sections = <<>>
    /\ listed = <<>> /\ side = "none"
    /\ file_errored = FALSE /\ checks_have_failed = FALSE

Init == ProgInit /\ ConcIdle /\ UnitIdle

Next ==
    \/ Start /\ UNCHANGED <<concVars, unitVars>>
    \/ LoadInput /\ UNCHANGED <<concVars, unitVars>>
    \/ PrimeStep /\ UNCHANGED <<concVars, unitVars>>
    \/ PrimeDone /\ UNCHANGED <<concVars, unitVars>>
    \/ CheckStep /\ UNCHANGED <<concVars, unitVars>>
    \/ EndSection /\ UNCHANGED <<concVars, unitVars>>
    \/ Finish /\ UNCHANGED <<concVars, unitVars>>
    \/ ListLoadInput /\ UNCHANGED <<concVars, unitVars>>
    \/ ListBeginPrime /\ UNCHANGED <<concVars, unitVars>>
    \/ ListCommands /\ UNCHANGED <<concVars, unitVars>>
    \/ SyntaxCheckInput /\ UNCHANGED <<concVars, unitVars>>
    \/ ListChecksInput /\ UNCHANGED <<concVars, unitVars>>
    \/ ListTagsInput /\ UNCHANGED <<concVars, unitVars>>
    \/ InputsDone /\ UNCHANGED <<concVars, unitVars>>
    \/ Exit /\ UNCHANGED <<concVars, unitVars>>
    \/ OptionsError /\ UNCHANGED <<concVars, unitVars>>

Spec == Init /\ [][Next]_vars

\* The program in every mode, continual mode among them, and under filters.
InitModes == (\E prog \in Programs : ProgStart(prog)) /\ ConcIdle /\ UnitIdle

NextContinual ==
    \/ ContinualLoadInput /\ UNCHANGED <<concVars, unitVars>>
    \/ ContinualFileError /\ UNCHANGED <<concVars, unitVars>>
    \/ ContinualBeginPass /\ UNCHANGED <<concVars, unitVars>>
    \/ ContinualBatchBegin /\ UNCHANGED <<concVars, unitVars>>
    \/ ContinualCheckStep /\ UNCHANGED <<concVars, unitVars>>

NextModes == Next \/ NextContinual

SpecModes == InitModes /\ [][NextModes]_vars

\* Continual mode alone. The loop of main.rs 277-283 has no way out, and a
\* step that can be taken is taken.
InitContinual ==
    (\E prog \in Programs : prog.invocation.mode = "continual" /\ ProgStart(prog))
    /\ ConcIdle /\ UnitIdle

NextContinualMode == NextContinual \/ (PrimeStep /\ UNCHANGED <<concVars, unitVars>>)

SpecContinual ==
    InitContinual /\ [][NextContinualMode]_vars /\ WF_vars(NextContinualMode)

InitConc == ProgIdle /\ ConcInit /\ UnitIdle

NextConc ==
    \/ \E i \in Callers : CallEnter(i) /\ UNCHANGED <<progVars, unitVars>>
    \/ \E i \in Callers : CallMatch(i) /\ UNCHANGED <<progVars, unitVars>>
    \/ \E i \in Callers : CallExecute(i) /\ UNCHANGED <<progVars, unitVars>>
    \/ OwnerIntoCommand /\ UNCHANGED <<progVars, unitVars>>

SpecConc == InitConc /\ [][NextConc]_vars

\* The analysis table alone.
InitTable == ProgIdle /\ ConcIdle /\ AnaInit /\ HttpIdle /\ BatchIdle /\ RewriteIdle

NextTable ==
    \/ AnalysisAdd /\ UNCHANGED <<progVars, concVars, batchVars, rwVars>>
    \/ AnalysisResolve /\ UNCHANGED <<progVars, concVars, batchVars, rwVars>>

SpecTable == InitTable /\ [][NextTable]_vars

\* An HTTP check alone.
InitHttp == ProgIdle /\ ConcIdle /\ AnaIdle /\ HttpInit /\ BatchIdle /\ RewriteIdle

NextHttp == HttpCheckRun /\ UNCHANGED <<progVars, concVars, batchVars, rwVars>>

SpecHttp == InitHttp /\ [][NextHttp]_vars

\* One batch of checks.
InitBatch == ProgIdle /\ ConcIdle /\ AnaIdle /\ HttpIdle /\ BatchInit /\ RewriteIdle

NextBatch ==
    \/ BatchPrimeStep /\ UNCHANGED <<progVars, concVars, anaVars, httpVars, rwVars>>
    \/ BatchPrimeDone /\ UNCHANGED <<progVars, concVars, anaVars, httpVars, rwVars>>
    \/ BatchCheckStep /\ UNCHANGED <<progVars, concVars, anaVars, httpVars, rwVars>>

SpecBatch == InitBatch /\ [][NextBatch]_vars

\* The rewrites alone.
InitRewrite == ProgIdle /\ ConcIdle /\ AnaIdle /\ HttpIdle /\ BatchIdle /\ RewriteInit

NextRewrite ==
    RewriteApply /\ UNCHANGED <<progVars, concVars, anaVars, httpVars, batchVars>>

SpecRewrite == InitRewrite /\ [][NextRewrite]_vars

----
\* The properties.

\* The cells of the Commands set, by adapter and key, and the cell at one.
CellKeys(cmds) ==
    {[adapter |-> "shell", key |-> k] : k \in DOMAIN cmds.shell.results}
    \cup {[adapter |-> "curl", key |-> k] : k \in DOMAIN cmds.curl.results}
    \cup (IF cmds.apt.exec # None THEN {[adapter |-> "apt", key |-> ""]} ELSE {})

CellAt(cmds, a) ==
    CASE a.adapter = "shell" -> cmds.shell.results[a.key]
      [] a.adapter = "curl" -> cmds.curl.results[a.key]
      [] a.adapter = "apt" -> cmds.apt.exec[1]

SameCell(x, y) == x.adapter = y.adapter /\ x.key = y.key

\* C1: in run mode, whatever the input files, the executor starts at most one
\* process for each adapter and invocation key: no two starts are for the same
\* cell, and no command is in the command history twice.
C1_AtMostOneSpawn ==
    mode = "run" =>
      /\ \A i, j \in DOMAIN spawnLog :
            (/\ spawnLog[i].by = "executor" /\ spawnLog[j].by = "executor"
             /\ SameCell(spawnLog[i], spawnLog[j])) => i = j
      /\ \A i, j \in DOMAIN executor :
            executor[i].invocation = executor[j].invocation => i = j

\* Two input files have been run, and a cell that was run for the first was
\* queried again, without a run, for the second.
C1_Witness ==
    /\ pc = "done" /\ Len(sections) = 2
    /\ \E i, j \in DOMAIN calls :
         /\ SameCell(calls[i], calls[j])
         /\ calls[i].file = 1 /\ calls[i].ran
         /\ calls[j].file = 2 /\ ~ calls[j].ran

\* Every call of run or run_raw on a cell returned what the first call on that
\* cell returned, and only the first called the executor.
SameOutcome ==
    \A i, j \in DOMAIN calls :
        (/\ i < j /\ SameCell(calls[i], calls[j])
         /\ calls[i].op # "into_command" /\ calls[j].op # "into_command")
        => /\ calls[j].ret = calls[i].ret
           /\ ~ calls[j].ran
           /\ calls[j].grew = 0

\* C2: a cell that has left Primed is never changed again by any step, and
\* every later run or run_raw on it returns what the first call returned,
\* without executing anything.
C2_SettledForGood ==
    [][/\ \A a \in CellKeys(commands) :
             CellAt(commands, a).state # "Primed"
             => a \in CellKeys(commands') /\ CellAt(commands', a) = CellAt(commands, a)
       /\ SameOutcome']_vars

\* One cell answered a later call from a stored value and another from a
\* stored error.
C2_Witness ==
    /\ \E j \in DOMAIN calls : calls[j].saw = "Completed" /\ calls[j].ret[1].ok
    /\ \E j \in DOMAIN calls : calls[j].saw = "Attempted" /\ ~ calls[j].ret[1].ok

\* C3: no call of run, run_raw or into_command matches on the Running state,
\* whatever the calls before it did.
C3_RunningNeverSeen ==
    \A i \in {Owner} \cup Callers : csaw[i] # "Running"

\* The interpretation of one caller has aborted, leaving Running behind, and
\* a later caller and into_command have been through the cell since.
C3_Witness ==
    /\ cell.state = "Running" /\ cell.poisoned
    /\ \E i \in Callers : cpc[i] = "panicked" /\ csaw[i] = "Poisoned"
    /\ cpc[Owner] = "panicked"

Overridden == "apt.output" \in DOMAIN options.global_options

\* C4: when apt's output is overridden, the adapter's cell stays the
\* Predetermined one it was built with, every query returns the supplied
\* value, no process is started for it, and no query adds to the command
\* history.
C4_OverrideNeverRuns ==
    Overridden =>
      /\ commands.apt.exec =
            Some(Predetermined("apt.output",
                               [T |-> "AptOutput",
                                lines |-> options.global_options["apt.output"]]))
      /\ \A i \in DOMAIN calls :
            calls[i].adapter = "apt" /\ calls[i].op = "run"
            => /\ calls[i].ret = Some(Ok([T |-> "AptOutput",
                                          lines |-> options.global_options["apt.output"]]))
               /\ ~ calls[i].ran
               /\ calls[i].grew = 0
      /\ \A i \in DOMAIN spawnLog : spawnLog[i].adapter # "apt"
      /\ \A i \in DOMAIN executor : executor[i].invocation # AptListInstalledCmd

\* With the override, apt checks of two inputs have been primed and queried.
C4_Witness ==
    /\ Overridden /\ pc = "done"
    /\ \E i, j \in DOMAIN calls :
         /\ calls[i].adapter = "apt" /\ calls[i].file = 1
         /\ calls[j].adapter = "apt" /\ calls[j].file = 2

\* What the cell holds for the callers once a call has completed.
StoredOutcome(c) ==
    IF c.state = "Completed"
    THEN Ok(IF cop.op = "run" THEN c.val[1] ELSE c.raw[1])
    ELSE Err(c.err[1])

AllThrough == \A i \in Callers : cpc[i] \in {"done", "panicked"}

\* C5: of the callers that call run (or run_raw) on one Primed cell at the same
\* time, exactly one runs the command, and every other caller returns the
\* outcome that caller stored.
C5_OneExecutesOthersObserve ==
    cell.state # "Predetermined" =>
      /\ Len(cexecs) <= 1
      /\ \A i \in Callers : cpc[i] = "done" => cret[i] = Some(StoredOutcome(cell))
      /\ AllThrough => Len(cexecs) = 1 /\ \A i \in Callers : cpc[i] = "done"

\* C6, as stated: every process of a program run is started in the check
\* phase, after prime_commands has loaded every check of the set being run.
C6_EveryProcessInCheckPhase ==
    \A i \in DOMAIN spawnLog :
        spawnLog[i].phase = "check" /\ spawnLog[i].primed = spawnLog[i].loaded

\* C6, amended: every process the executor runs is started in the check
\* phase, after prime_commands has loaded every check of the set being run,
\* and the command history holds nothing else; the one other process of a
\* run, the side process, is started before the first input is loaded.
C6_ExecutorOnlyInCheckPhase ==
    /\ \A i \in DOMAIN spawnLog :
         /\ spawnLog[i].by = "executor"
            => spawnLog[i].phase = "check" /\ spawnLog[i].primed = spawnLog[i].loaded
         /\ spawnLog[i].by = "side"
            => i = 1 /\ spawnLog[i].phase = "start" /\ spawnLog[i].file = 1
    /\ Len(executor) <= Cardinality({i \in DOMAIN spawnLog : spawnLog[i].by = "executor"})
    /\ pc \in {"start", "load", "prime"} /\ fileIdx = 1 /\ mode = "run" => executor = <<>>

\* With a side process running, the executor has run a command for the
\* second input.
C6_Witness ==
    /\ \E i \in DOMAIN spawnLog : spawnLog[i].by = "side"
    /\ \E i \in DOMAIN spawnLog : spawnLog[i].by = "executor" /\ spawnLog[i].file = 2

\* The keys of every map of the adapters, each with the allocation stamp of
\* its entry.
Stamps(m) == [k \in DOMAIN m |-> m[k].id]

MapShape(cmds) ==
    [shell |-> Stamps(cmds.shell.results), curl |-> Stamps(cmds.curl.results),
     apt |-> Stamps(cmds.apt.exec), exists |-> Stamps(cmds.files.exists),
     files |-> Stamps(cmds.files.files), contents |-> Stamps(cmds.files.contents),
     targets |-> Stamps(cmds.files.targets)]

\* C7: no step taken while checks are evaluated adds an entry to an adapter's
\* map, removes one or replaces one; the only steps that do are the steps of
\* prime_commands.
C7_MapsChangeOnlyInPriming ==
    [][MapShape(commands') # MapShape(commands) => pc = "prime"]_vars

\* Checks of the second input are being evaluated: some cell holds a result
\* and some cell is still Primed.
C7_Witness ==
    /\ pc = "check" /\ fileIdx = 2 /\ idx > 1
    /\ \E a \in CellKeys(commands) : CellAt(commands, a).state = "Completed"
    /\ \E a \in CellKeys(commands) : CellAt(commands, a).state = "Primed"

\* The checks of the model's documents.
AllChecks == UNION {Range(ReadToml(<<>>, d.document).checks) : d \in Sources}

\* Whether the key a check primes is in its adapter's map already.
KeyPresent(c, cmds) ==
    CASE c.type \in {"cmd", "tap"} -> c.invocation \in DOMAIN cmds.shell.results
      [] c.type = "http" -> c.url \in DOMAIN cmds.curl.results
      [] c.type = "apt" -> cmds.apt.exec # None
      [] c.type = "fs" -> <<c.input_path, c.follow>> \in DOMAIN cmds.files.files

\* Whether the entry of a check's key is one that was just installed.
FreshEntry(c, cmds, id) ==
    IF c.type = "fs"
    THEN cmds.files.files[<<c.input_path, c.follow>>] = Slot(id)
    ELSE /\ CellAt(cmds, CellOf(c)).state = "Primed"
         /\ CellAt(cmds, CellOf(c)).id = id

\* C8: priming is idempotent. In every state the program reaches, priming a
\* key that is present changes nothing in the Commands set, priming a key that
\* is absent installs a Primed cell for it, and priming twice is priming once.
C8_PrimeIdempotent ==
    \A c \in AllChecks :
        /\ LoadCheck(c, LoadCheck(c, commands, nextId), nextId + 1)
              = LoadCheck(c, commands, nextId)
        /\ KeyPresent(c, commands) => LoadCheck(c, commands, nextId) = commands
        /\ ~ KeyPresent(c, commands)
              => FreshEntry(c, LoadCheck(c, commands, nextId), nextId)

\* prime_commands is about to load a check whose cell holds the result of a
\* run for an earlier input.
C8_Witness ==
    /\ pc = "prime" /\ ~ PrimeSweepDone(idx, checks)
    /\ checks[idx].type # "fs"
    /\ KeyPresent(checks[idx], commands)
    /\ CellAt(commands, CellOf(checks[idx])).state = "Completed"

AllKindsPassed(messages) == \A j \in DOMAIN messages : messages[j].kind = "Passed"

\* The filesystem checks among check_outputs that involve `path` and did
\* (passed = TRUE) or did not (passed = FALSE) have only Passed sub-results.
PathChecks(check_outputs, path, passed) ==
    LET sel == SelectSeq(check_outputs,
                         LAMBDA x : /\ x.message.type = "fs"
                                    /\ x.message.input_path = path
                                    /\ AllKindsPassed(x.results) = passed)
    IN  [i \in DOMAIN sel |-> sel[i].message]

\* C9: a check is reported as passed exactly when every sub-result of it is
\* Passed: by print_check, in the check outputs of the section being run and
\* of every completed section with its totals, and in the analysis table.
C9_PassedIffAllPassed ==
    /\ \A i \in DOMAIN outputs :
         /\ outputs[i].passed <=> AllKindsPassed(outputs[i].results)
         /\ uiLog[i].passed <=> \A j \in DOMAIN uiLog[i].results :
                                    uiLog[i].results[j].r = "Passed"
         /\ uiLog[i].check = outputs[i].message
         /\ DOMAIN uiLog[i].results = DOMAIN outputs[i].results
    /\ DOMAIN uiLog = DOMAIN outputs
    /\ \A n \in DOMAIN sections :
         /\ \A i \in DOMAIN sections[n].results.check_outputs :
              sections[n].results.check_outputs[i].passed
                <=> AllKindsPassed(sections[n].results.check_outputs[i].results)
         /\ sections[n].results.totals.pass_count =
              Cardinality({i \in DOMAIN sections[n].results.check_outputs :
                             AllKindsPassed(sections[n].results.check_outputs[i].results)})
    /\ table # None =>
         \A path \in {"f1"} :
            IF path \in DOMAIN table[1].paths
            THEN /\ table[1].paths[path].passes = PathChecks(outputs, path, TRUE)
                 /\ table[1].paths[path].fails = PathChecks(outputs, path, FALSE)
            ELSE PathChecks(outputs, path, TRUE) = <<>> /\ PathChecks(outputs, path, FALSE) = <<>>

\* A completed section holds a check that failed on a command error alone and
\* a check that passed, and the analysis table of the section being run holds
\* a check that failed and one that passed.
C9_Witness ==
    /\ \E n \in DOMAIN sections :
         /\ \E i \in DOMAIN sections[n].results.check_outputs :
              \E j \in DOMAIN sections[n].results.check_outputs[i].results :
                 sections[n].results.check_outputs[i].results[j].kind = "Error"
         /\ \E i \in DOMAIN sections[n].results.check_outputs :
              sections[n].results.check_outputs[i].passed
    /\ table # None /\ "f1" \in DOMAIN table[1].paths
    /\ table[1].paths["f1"].passes # <<>> /\ table[1].paths["f1"].fails # <<>>

\* C10: every check that was evaluated has at least one sub-result.
C10_NeverNoSubResults ==
    /\ \A i \in DOMAIN outputs : DOMAIN outputs[i].results # {}
    /\ \A i \in DOMAIN uiLog : DOMAIN uiLog[i].results # {}

\* The check that the last step evaluated got an execution error from the
\* call it made on its adapter's cell, and gave its results back.
GotExecError ==
    /\ Len(calls') = Len(calls) + 1
    /\ Len(uiLog') = Len(uiLog) + 1
    /\ calls'[Len(calls')].ret # None
    /\ ~ calls'[Len(calls')].ret[1].ok

\* C11: whenever the query a check makes of its adapter returns an execution
\* error, the results of the check hold a CommandError result that carries
\* that error.
C11_ExecErrorSurfaces ==
    [][GotExecError =>
         \E j \in DOMAIN uiLog'[Len(uiLog')].results :
            uiLog'[Len(uiLog')].results[j] = CommandError(calls'[Len(calls')].ret[1].v)]_vars

\* The checks that read_toml loads from the input `n`.
LoadedFrom(n) == ReadToml(<<>>, inputs[n].document).checks

\* The checks of the check outputs, in their order.
Messages(check_outputs) == [i \in DOMAIN check_outputs |-> check_outputs[i].message]

\* C12: a run never short-circuits. While an input is being run the checks
\* printed and put out are the checks before the current one, in the order of
\* the set; every completed section holds every check of its input in that
\* order; and a run that has ended has a section for every input that loaded,
\* whatever the checks did.
C12_NeverShortCircuits ==
    mode = "run" =>
      /\ pc = "check" => /\ Messages(outputs) = SubSeq(checks, 1, idx - 1)
                         /\ [i \in DOMAIN uiLog |-> uiLog[i].check] = Messages(outputs)
      /\ \A n \in DOMAIN sections :
            Messages(sections[n].results.check_outputs) = LoadedFrom(sections[n].input)
      /\ pc \in {"done", "exited", "panicked"} =>
            \A n \in DOMAIN inputs :
               inputs[n].loads => \E s \in DOMAIN sections : sections[s].input = n

\* The entries of a document, each with the key of its table.
EntriesOf(check_document) ==
    UNION {{[check_key |-> k, entry |-> check_document[k][i]] :
              i \in DOMAIN check_document[k]} : k \in DOMAIN check_document}

\* The entries of a document that the filter lets through to <Check>::read.
ReadEntriesOf(check_document) ==
    {x \in EntriesOf(check_document) :
        ShouldIncludeType(filter.types, x.check_key) /\ TagOk(filter, x.entry)}

Validates(x) == x.check_key \in KnownTypes /\ x.entry.valid

\* The inputs that have been loaded and read into the current check set: the
\* one being run in run mode, every input so far in continual mode.
InputsRead ==
    IF mode = "run"
    THEN IF pc \in {"prime", "check", "panicked"} THEN {fileIdx} ELSE {}
    ELSE {n \in 1 .. (fileIdx - 1) : n \in DOMAIN inputs /\ inputs[n].loads}

EntriesRead == UNION {ReadEntriesOf(inputs[n].document) : n \in InputsRead}

\* What C13 says of loading: a check that fails validation is reported as a
\* read error, is not in the set and has no result printed, and every valid
\* check read with it is in the set.
DroppedAlone ==
    /\ (\E x \in EntriesRead : ~ Validates(x)) => file_errored
    /\ (mode = "run" => InputsRead # {})
          => Range(checks) = {x.entry.check : x \in {y \in EntriesRead : Validates(y)}}
    /\ \A i \in DOMAIN uiLog : uiLog[i].check \in Range(checks)
    /\ \A n \in DOMAIN sections : \A i \in DOMAIN sections[n].results.check_outputs :
          \E x \in EntriesOf(inputs[sections[n].input].document) :
             Validates(x) /\ x.entry.check = sections[n].results.check_outputs[i].message

TagSet(entry) == IF entry.tags # None THEN entry.tags[1] ELSE {}

\* What C14 says of a tag set: it is excluded when it shares a tag with the
\* skip list, and otherwise included when the allow list is empty or shares a
\* tag with it.
TagSetIncluded(tags) ==
    /\ tags \cap filter.tags.skip_tags = {}
    /\ filter.tags.tags = {} \/ tags \cap filter.tags.tags # {}

\* C14: a check that parses is in the loaded set exactly when the type filter
\* includes its type and the tag filter includes its tag set; an untagged
\* check is included by the tag filter exactly when the allow list is empty.
C14_LoadedIffFiltersInclude ==
    (mode \in {"run", "continual"} /\ (mode = "run" => InputsRead # {})) =>
      \A n \in InputsRead : \A x \in EntriesOf(inputs[n].document) :
         Validates(x) =>
           /\ x.entry.check \in Range(checks)
                <=> /\ ShouldIncludeType(filter.types, x.check_key)
                    /\ TagSetIncluded(TagSet(x.entry))
           /\ x.entry.tags = None
                => (TagOk(filter, x.entry) <=> filter.tags.tags = {})

\* Under an allow list and a skip list, the set that was loaded holds a check
\* with an allowed tag, and leaves out an untagged check and a check that has
\* an allowed tag and a skipped one.
C14_Witness ==
    /\ mode = "run" /\ pc = "check"
    /\ filter.tags.tags # {} /\ filter.tags.skip_tags # {}
    /\ \E x \in EntriesOf(inputs[fileIdx].document) :
         Validates(x) /\ x.entry.check \in Range(checks)
    /\ \E x \in EntriesOf(inputs[fileIdx].document) :
         /\ Validates(x) /\ x.entry.tags = None /\ x.entry.check \notin Range(checks)
    /\ \E x \in EntriesOf(inputs[fileIdx].document) :
         /\ Validates(x) /\ x.entry.check \notin Range(checks)
         /\ TagSet(x.entry) \cap filter.tags.tags # {}
         /\ TagSet(x.entry) \cap filter.tags.skip_tags # {}

\* A pass of continual mode is at its start: the loop of main.rs has made the
\* executor and the Commands set, and nothing is primed yet.
PassStarts == mode = "continual" /\ pc = "prime" /\ primed = 0 /\ idx = 1

\* How many times the check `c` is in the list.
Count(list, c) == Cardinality({i \in DOMAIN list : list[i] = c})

\* Every pass starts with an executor that has run nothing and with adapters
\* that hold no cell but an overriding one; within a pass no cell is run
\* twice, and a call that did not run its cell follows a call of this pass
\* that did.
FreshPass ==
    /\ PassStarts => /\ executor = <<>>
                     /\ commands = FromGlobalOptions(options.global_options)
                     /\ calls = <<>> /\ spawnLog = <<>>
    /\ \A i, j \in DOMAIN spawnLog : SameCell(spawnLog[i], spawnLog[j]) => i = j
    /\ \A j \in DOMAIN calls :
          \/ calls[j].saw = "Primed" /\ calls[j].ran
          \/ \E i \in 1 .. (j - 1) : SameCell(calls[i], calls[j]) /\ calls[i].ran
    /\ Len(executor) <= Len(spawnLog)

\* The set of loaded checks is the same after every step of a pass.
SameChecks ==
    pass >= 1 => \A c \in Range(checks) \cup Range(checks') :
                    Count(checks', c) = Count(checks, c)

\* C15: in continual mode every pass starts with a fresh executor and fresh
\* adapter caches, every invocation is run again, at most once, in every
\* pass, the set of loaded checks is the same in every pass, and the passes
\* repeat without end: a pass that is sweeping the checks is followed by the
\* start of another pass.
C15_FreshPassesWithoutEnd ==
    /\ [] FreshPass
    /\ [][SameChecks]_vars
    /\ (mode = "continual" /\ pc = "check") ~> PassStarts

\* The sweep over the checks of the set has made its last turn.
SweepOver == mode \in {"run", "continual"} /\ pc = "check" /\ idx > Len(checks)

\* The sleep `s` falls between two consecutive checks of the sweep.
BetweenChecks(s) ==
    \/ s.when = "before" /\ s.check > 1
    \/ s.when = "after" /\ s.check < Len(checks)

\* C16: with a delay between checks, a sweep over n checks sleeps only
\* between two consecutive checks, never before the first check nor after
\* the last, and so n - 1 times when it is over.
C16_DelayOnlyBetweenChecks ==
    (options.delay = "Wait" /\ mode \in {"run", "continual"}) =>
        /\ \A j \in DOMAIN sleeps : BetweenChecks(sleeps[j])
        /\ (SweepOver /\ checks # <<>>) => Len(sleeps) = Len(checks) - 1

\* The place of a check type among the keys of a document.
TypePos(check_key) == CHOOSE i \in DOMAIN TypeOrder : TypeOrder[i] = check_key

\* The place of the first entry of its table that holds the check `c`.
EntryPos(check_document, c) ==
    CHOOSE i \in DOMAIN check_document[c.type] :
       /\ check_document[c.type][i].check = c
       /\ \A j \in 1 .. (i - 1) : check_document[c.type][j].check # c

\* The list is grouped by check type, and within a type it is in the order
\* of the entries of the document.
InLoadOrder(check_document, list) ==
    \A i, j \in DOMAIN list :
       i < j => \/ TypePos(list[i].type) < TypePos(list[j].type)
                \/ /\ list[i].type = list[j].type
                   /\ EntryPos(check_document, list[i]) <= EntryPos(check_document, list[j])

\* A set has been loaded from the current input and is being run.
RunLoaded == mode = "run" /\ pc \in {"prime", "check"}

\* C17: without random order the run traverses the set grouped by check
\* type, in the order the checks were inserted; with random order the loaded
\* list is shuffled exactly once per load, and the run traverses that one
\* permutation of all the loaded checks.
C17_OrderOfTraversal ==
    RunLoaded =>
       /\ Messages(outputs) = SubSeq(checks, 1, Len(outputs))
       /\ filter.order = "ByType" => InLoadOrder(inputs[fileIdx].document, checks)
       /\ filter.order = "Random" =>
             /\ shuffles = 1
             /\ \E list \in ShuffleOutcomes(checks) :
                   InLoadOrder(inputs[fileIdx].document, list)

\* An input of the invocation could not be loaded, or a check the filter
\* lets through had a read error (the mode that lists the tags reads no
\* check).
InputTrouble ==
    \E n \in DOMAIN inputs :
       \/ ~ inputs[n].loads
       \/ /\ mode # "list_tags"
          /\ \E x \in ReadEntriesOf(inputs[n].document) : ~ Validates(x)

\* A check that was evaluated has a sub-result that is not Passed.
SomeCheckFailed ==
    \E s \in DOMAIN sections : \E i \in DOMAIN sections[s].results.check_outputs :
       \E j \in DOMAIN sections[s].results.check_outputs[i].results :
          sections[s].results.check_outputs[i].results[j].kind # "Passed"

\* The exit code when nothing went wrong with the inputs and the documents.
ChecksCode == IF SomeCheckFailed THEN CHECKS_HAVE_FAILED ELSE SUCCESS

\* C18: in every running mode the process exits with 3 when the options are
\* invalid; otherwise with 2 when an input did not load or a check had a read
\* error, and with nothing but 2 or the code of the checks when a result
\* document was to be written (2 when it could not be); otherwise with 1
\* when an evaluated check failed, and otherwise with 0.
C18_ExitCodes ==
    pc = "exited" =>
       IF mode = "invalid" THEN exit_code = Some(OPTIONS_ERROR)
       ELSE IF InputTrouble THEN exit_code = Some(FILE_ERROR)
       ELSE IF options.result_documents
            THEN exit_code \in {Some(FILE_ERROR), Some(ChecksCode)}
       ELSE exit_code = Some(ChecksCode)

\* Every property a check of the model can have.
AllPoints == UNION {Range(properties) : properties \in PropertyLists}

\* The checks added so far that have the property and passed (or failed).
AddedWith(prop, passed) ==
    {j \in DOMAIN added : added[j].passed = passed /\ prop \in Range(added[j].properties)}

\* The places of the Correlations of the property in what was resolved.
CorrelationsOf(prop) == {i \in DOMAIN corals[1] : corals[1][i].property = prop}

\* C19: after any sequence of additions, resolve_correlations yields a
\* Correlation for a path, user or group exactly when at least one check
\* with that property failed and none passed; it yields one only, and its
\* count is the number of the failed checks with the property.
C19_CorrelationIffOnlyFailures ==
    corals # None =>
       /\ \A i \in DOMAIN corals[1] : corals[1][i].property \in AllPoints
       /\ \A prop \in AllPoints :
             /\ CorrelationsOf(prop) # {}
                   <=> (AddedWith(prop, FALSE) # {} /\ AddedWith(prop, TRUE) = {})
             /\ Cardinality(CorrelationsOf(prop)) <= 1
             /\ \A i \in CorrelationsOf(prop) :
                   corals[1][i].count = Cardinality(AddedWith(prop, FALSE))

\* Three checks on /etc/x failed and none passed: one Correlation, of count 3.
C19_Witness ==
    /\ Len(added) = 3
    /\ \A j \in DOMAIN added :
          ~ added[j].passed /\ added[j].properties = <<InvolvesPath("/etc/x")>>
    /\ corals = Some(<<Correlation(InvolvesPath("/etc/x"), 3)>>)

\* The predicates an HTTP check can declare, in the order of declaration,
\* the other headers last.
PredicateOrder ==
    <<"status", "content_type", "redirect_to", "server", "encoding", "body">>
    \o HeaderOrder

\* The predicates the check declares.
DeclaredPredicates(c) ==
    {k \in {"status", "content_type", "redirect_to", "server", "encoding", "body"} :
        c[k] # None}
    \cup DOMAIN c.also

\* The predicate a sub-result is the result of.
PredicateOf(result) ==
    CASE result.what \in {"StatusMatch", "StatusMismatch"} -> "status"
      [] result.what \in {"ContentTypeMatch", "ContentTypeMismatch",
                          "ContentTypeMissing", "InvalidMimeType"} -> "content_type"
      [] result.what \in {"RedirectMatch", "RedirectMismatch",
                          "RedirectMissing"} -> "redirect_to"
      [] result.what \in {"EncodingMatch", "EncodingMismatch",
                          "EncodingMissing"} -> "encoding"
      [] result.what \in {"ContentsPass", "ContentsFail"} -> "body"
      [] result.what \in {"HeaderMatch(X-A)", "HeaderMismatch(X-A)",
                          "HeaderMissing(X-A)"} -> "X-A"
      [] result.what \in {"HeaderMatch(X-B)", "HeaderMismatch(X-B)",
                          "HeaderMissing(X-B)"} -> "X-B"
      [] OTHER -> "none"

\* The place of a predicate in the order of declaration.
PredicatePos(k) == CHOOSE i \in DOMAIN PredicateOrder : PredicateOrder[i] = k

\* The sub-results after the first are one for each predicate the check
\* declares, in the order of declaration.
OnePerPredicate(c, results) ==
    /\ {PredicateOf(results[i]) : i \in 2 .. Len(results)} = DeclaredPredicates(c)
    /\ \A i, j \in 2 .. Len(results) :
          i < j => PredicatePos(PredicateOf(results[i]))
                      < PredicatePos(PredicateOf(results[j]))

\* C20: when the response has a status, the sub-results of an HTTP check
\* are the transport success followed by exactly one sub-result for each
\* predicate the check declares, in the order status, content type,
\* redirect, encoding, body, then each other header; when the response has
\* no status, the list is one Failed sub-result.
C20_OneResultPerPredicate ==
    (hresults # None /\ hresponse.ok) =>
       IF hresponse.v.status # None
       THEN /\ hresults[1][1] = Passed("HttpSucceeded")
            /\ OnePerPredicate(hcheck, hresults[1])
       ELSE hresults[1] = <<Failed("HttpFailed")>>

\* The place of the sub-result of the redirect among the results of a check
\* that declares one: after the transport success and the results of the
\* status and of the content type.
RedirectPlace(c) ==
    2 + (IF c.status # None THEN 1 ELSE 0) + (IF c.content_type # None THEN 1 ELSE 0)

\* The check declares a redirect and the response has a status.
RedirectChecked ==
    /\ hresults # None /\ hresponse.ok /\ hresponse.v.status # None
    /\ hcheck.redirect_to # None

\* C21: a check with a redirect-to predicate has a Failed sub-result for it
\* whenever the status of the response is outside 300-303, also when the
\* Location header is the expected target.
C21_RedirectNeedsRedirectStatus ==
    (RedirectChecked /\ hresponse.v.status[1] \notin 300 .. 303) =>
        hresults[1][RedirectPlace(hcheck)].r = "Failed"

\* The lines are not a well-formed TAP output: a count line comes after a
\* result line, or the count differs from the number of result lines, or a
\* line is neither a count line nor a result line.
MalformedTap(lines) ==
    \/ \E i, j \in DOMAIN lines :
          i < j /\ ResultLineCaps(lines[i]) # None /\ CountLineCaps(lines[j]) # None
    \/ \E j \in DOMAIN lines :
          /\ CountLineCaps(lines[j]) # None
          /\ CountLineCaps(lines[j])[1]
                # Cardinality({i \in DOMAIN lines : ResultLineCaps(lines[i]) # None})
    \/ \E i \in DOMAIN lines :
          CountLineCaps(lines[i]) = None /\ ResultLineCaps(lines[i]) = None

\* This step is the evaluation of a TAP check whose command gave an output
\* that is not well-formed.
TapGotMalformed ==
    /\ mode = "run" /\ pc = "check" /\ idx <= Len(checks) /\ checks[idx].type = "tap"
    /\ Len(calls') = Len(calls) + 1
    /\ calls'[Len(calls')].ret # None /\ calls'[Len(calls')].ret[1].ok
    /\ MalformedTap(calls'[Len(calls')].ret[1].v.stdout_lines)

\* C22: a TAP check whose output has a count line after a result line, a
\* count that differs from the number of result lines, or a line that matches
\* neither pattern, completes its evaluation and is reported as failed.
C22_MalformedTapFails ==
    [][TapGotMalformed =>
          /\ pc' # "panicked"
          /\ Len(uiLog') = Len(uiLog) + 1
          /\ ~ uiLog'[Len(uiLog')].passed]_vars

\* The sub-results of the check `c` in the batch of `c` alone, against the
\* same server and the same files.
AloneResults(c, server, file) ==
    RunBaseCheck(c, LoadCheck(c, FromGlobalOptions(EmptyMap), 1), <<>>,
                 ExternalOutcome(c, LoadCheck(c, FromGlobalOptions(EmptyMap), 1),
                                 server, file)).checked.results

\* C23: the sub-results of a check depend on the check and on how the
\* external system answers alone: whatever other checks are in the batch and
\* in whatever order they were primed, the check has the sub-results it has
\* in the batch of itself alone against the same external system.
C23_ResultsIndependentOfBatch ==
    \A i \in DOMAIN bresults :
       bresults[i] = AloneResults(bchecks[i], bserver, bfile)

----
\* list-commands against a run of the same inputs.

\* set.rs 184-211: prime_commands, over the whole check set.
RECURSIVE PrimeCommands(_, _, _)
PrimeCommands(set_checks, cmds, id) ==
    IF set_checks = <<>> THEN cmds
    ELSE PrimeCommands(Tail(set_checks), LoadCheck(Head(set_checks), cmds, id), id + 1)

\* main.rs 318-333: the check set list-commands has read once it has gone
\* through `input_list`, starting from `set_checks`.
RECURSIVE ReadInputs(_, _, _)
ReadInputs(set_checks, f, input_list) ==
    IF input_list = <<>> THEN set_checks
    ELSE IF ~ Head(input_list).loads
    THEN ReadInputs(set_checks, f, Tail(input_list))
    ELSE ReadInputs((CHOOSE r \in ReadTomlWith(set_checks, f, Head(input_list).document) :
                        TRUE).checks,
                    f, Tail(input_list))

\* main.rs 315-343: the commands set of list-commands after prime_commands.
ListPrimed(opts, f, input_list) ==
    PrimeCommands(ReadInputs(<<>>, f, input_list),
                  FromGlobalOptions(opts.global_options), 1)

\* main.rs 151-195: the commands set of a run, as the priming of one input
\* after the other leaves its cells (the checks run in between change the
\* state of a cell, never the command it was primed with).
RECURSIVE RunPrimedCells(_, _, _)
RunPrimedCells(cmds, f, input_list) ==
    IF input_list = <<>> THEN cmds
    ELSE RunPrimedCells(PrimeCommands(ReadInputs(<<>>, f, <<Head(input_list)>>), cmds, 1),
                        f, Tail(input_list))

\* The command of the cell of `adapter` and `key` in the commands set `cmds`.
CommandAt(cmds, adapter, key) ==
    IF adapter = "apt" THEN cmds.apt.exec[1].cmd
    ELSE IF adapter = "curl" THEN cmds.curl.results[key].cmd
    ELSE cmds.shell.results[key].cmd

\* The commands the executor has spawned so far in this run, in order.
SpawnedCommands ==
    LET by_executor == SelectSeq(spawnLog, LAMBDA s : s.by = "executor")
        cells == RunPrimedCells(FromGlobalOptions(options.global_options), filter, inputs)
    IN  [i \in DOMAIN by_executor |->
            CommandAt(cells, by_executor[i].adapter, by_executor[i].key)[1]]

\* Two lists hold the same elements the same number of times.
SameBag(s, r) ==
    \A x \in Range(s) \cup Range(r) :
        Cardinality({i \in DOMAIN s : s[i] = x}) = Cardinality({i \in DOMAIN r : r[i] = x})

\* C24: list-commands spawns no process and prints the commands of the cells
\* it has primed; a run that has ended has spawned exactly the commands that
\* list-commands prints for the same inputs, filter and options, each once.
C24_ListedAreSpawned ==
    /\ mode = "list" => spawnLog = <<>>
    /\ (mode = "list" /\ pc = "done") =>
          listed = ListCommandsOf(ListPrimed(options, filter, inputs))
    /\ (mode = "run" /\ pc \in {"done", "exited", "panicked"}) =>
          SameBag(SpawnedCommands, ListCommandsOf(ListPrimed(options, filter, inputs)))

----
\* The command history.

\* Whether the call `call` (an entry of calls) made the executor run a process
\* to its end: spawn, reading the output and wait all succeeded.
ExecutionCompleted(call) ==
    /\ call.ran
    /\ ~ (/\ call.ret # None
          /\ ~ call.ret[1].ok
          /\ call.ret[1].v.err \in {"Spawn", "Stdout", "Wait"})

\* The calls that completed an execution.
CompletedCalls(log) == SelectSeq(log, ExecutionCompleted)

\* C25: the command history only grows, by one entry at its end for each
\* execution that completes and by nothing otherwise; the entries it holds
\* are never altered or removed, and it holds one entry for each completed
\* execution, in the order of the executions.
C25_HistoryOnlyGrows ==
    [][/\ Len(executor') >= Len(executor)
       /\ SubSeq(executor', 1, Len(executor)) = executor
       /\ Len(executor') - Len(executor) =
             (IF Len(calls') > Len(calls) /\ ExecutionCompleted(calls'[Len(calls')])
              THEN 1 ELSE 0)
       /\ Len(executor') = Len(CompletedCalls(calls'))
       /\ \A i \in DOMAIN executor' :
             executor'[i].invocation =
                CommandAt(RunPrimedCells(FromGlobalOptions(options.global_options),
                                         filter, inputs),
                          CompletedCalls(calls')[i].adapter,
                          CompletedCalls(calls')[i].key)[1]]_vars

\* The history holds two entries and an execution has failed to complete.
C25_Witness ==
    /\ Len(executor) >= 2
    /\ \E i \in DOMAIN calls : calls[i].ran /\ ~ ExecutionCompleted(calls[i])

----
\* The rewrites.

\* The rules that parse_rewrites made of the arguments.
RewriteRules == ParseRewrites(rwArgs).v.rules

\* Two rules overlap when some value is matched by both: they are of one kind
\* and the source of one begins with the source of the other (for interfaces,
\* is the source of the other).
Overlapping(r, s) ==
    /\ r.kind = s.kind
    /\ IF r.kind = "Interface" THEN r.from = s.from
       ELSE StartsWith(r.from, s.from) \/ StartsWith(s.from, r.from)

NoOverlappingRules(rules) ==
    \A i, j \in DOMAIN rules : i # j => ~ Overlapping(rules[i], rules[j])

\* What the rule `r` writes can be matched by the rule `s`: the target of `r`
\* begins with the source of `s`, or the source of `s` with the target of `r`
\* (for interfaces, the target is the source).
Feeds(r, s) ==
    /\ r.kind = s.kind
    /\ IF r.kind = "Interface" THEN r.to = s.from
       ELSE StartsWith(r.to, s.from) \/ StartsWith(s.from, r.to)

\* No rule's target can be matched by a rule (itself included) and no path
\* target begins with a tilde.
NoRuleFeedsARule(rules) ==
    /\ \A i, j \in DOMAIN rules : ~ Feeds(rules[i], rules[j])
    /\ \A i \in DOMAIN rules :
          rules[i].kind = "Path" => ~ StartsWith(rules[i].to, <<"~">>)

\* C26: with rules that do not overlap, applying the rewrites to a value that
\* has been rewritten gives it back unchanged.
C26_RewriteTwiceIsOnce ==
    (/\ ParseRewrites(rwArgs).ok
     /\ NoOverlappingRules(RewriteRules)
     /\ Len(rwOut) = 2) => rwOut[2] = rwOut[1]

\* C26, amended: with rules that do not overlap and of which none writes what
\* a rule can match (no target begins with, or is the beginning of, a source
\* of the same kind; no path target begins with a tilde), applying the
\* rewrites to a value that has been rewritten gives it back unchanged.
C26_RewriteTwiceIsOnceUnfed ==
    (/\ ParseRewrites(rwArgs).ok
     /\ NoOverlappingRules(RewriteRules)
     /\ NoRuleFeedsARule(RewriteRules)
     /\ Len(rwOut) = 2) => rwOut[2] = rwOut[1]

\* Two rules that do not overlap and feed no rule have been applied twice to
\* a value that the first application changed.
C26_Witness ==
    /\ ParseRewrites(rwArgs).ok
    /\ Len(RewriteRules) = 2
    /\ NoOverlappingRules(RewriteRules)
    /\ NoRuleFeedsARule(RewriteRules)
    /\ Len(rwOut) = 2
    /\ rwOut[1] # rwValue.string
    /\ rwValue.string[1] # "~"

----
\* Executions that fail.

\* The call `call` (an entry of calls) returned the error of a spawn or of a
\* wait that failed.
FailedToRun(call) ==
    /\ call.ret # None
    /\ ~ call.ret[1].ok
    /\ call.ret[1].v.err \in {"Spawn", "Wait"}

\* The cell the call `call` was made on, in the commands set `cmds`.
CellCalled(cmds, call) == CellAt(cmds, [adapter |-> call.adapter, key |-> call.key])

\* C27: when a check's query returns the error of a failed spawn or wait, the
\* cell is Attempted with that error and holds no RanCommand, the command
\* history has not grown, and the check reports the failure alone: one
\* sub-result, made of no output line.
C27_FailedExecutionLeavesNothing ==
    [][(Len(calls') = Len(calls) + 1 /\ FailedToRun(calls'[Len(calls')])) =>
          /\ CellCalled(commands', calls'[Len(calls')]).state = "Attempted"
          /\ CellCalled(commands', calls'[Len(calls')]).err =
                Some(calls'[Len(calls')].ret[1].v)
          /\ CellCalled(commands', calls'[Len(calls')]).raw = None
          /\ executor' = executor
          /\ \A i \in DOMAIN executor :
                executor[i].invocation #
                   CommandAt(RunPrimedCells(FromGlobalOptions(options.global_options),
                                            filter, inputs),
                             calls'[Len(calls')].adapter, calls'[Len(calls')].key)[1]
          /\ Len(uiLog') = Len(uiLog) + 1
          /\ uiLog'[Len(uiLog')].results \in
                {<<CommandError(calls'[Len(calls')].ret[1].v)>>,
                 <<Failed("No")>>, <<Failed("CommandFailed")>>}]_vars

\* A spawn has failed and a later check of the same cell was answered with
\* the stored error; a wait has failed too.
C27_Witness ==
    /\ \E i, j \in DOMAIN calls :
          /\ i < j /\ calls[i].ran /\ ~ calls[j].ran
          /\ calls[i].adapter = calls[j].adapter /\ calls[i].key = calls[j].key
          /\ FailedToRun(calls[i]) /\ FailedToRun(calls[j])
    /\ \E i \in DOMAIN calls : calls[i].ran /\ FailedToRun(calls[i])
                                  /\ calls[i].ret[1].v.err = "Wait"
    /\ executor # <<>>

----
\* The side process.

\* A check is evaluated in this step: a turn of the loop of run_all or of
\* run_continual_batch.
CheckEvaluated ==
    /\ mode \in {"run", "continual"}
    /\ pc = "check"
    /\ idx' = idx + 1 \/ pc' = "panicked"

\* C28: with a side process configured, a check is only evaluated while the
\* side process is running; the kill signal is sent after the last input has
\* been processed and never again; and a program that has ended has sent it.
C28_ChecksWhileSideRuns ==
    [][options.process =>
          /\ CheckEvaluated => side = "running" /\ side' = "running"
          /\ (side = "running" /\ side' # "running") =>
                side' = "stopped" /\ mode = "run" /\ fileIdx > Len(inputs)
          /\ side = "stopped" => side' = "stopped"
          /\ (mode \in {"run", "continual"} /\ pc' \in {"done", "exited", "panicked"}) =>
                side' = "stopped"]_vars

----
\* The filesystem adapter.

\* The maps of slots of the filesystem adapter (files.rs 23-28).
SlotMaps == {"exists", "files", "contents", "targets"}

\* C29: in a run, a slot of the filesystem adapter that holds an observation
\* keeps it: no step removes the slot, replaces it or changes what it holds.
C29_ObservationsKept ==
    [][mode = "run" =>
          \A m \in SlotMaps : \A k \in DOMAIN commands.files[m] :
             commands.files[m][k].val # None =>
                /\ k \in DOMAIN commands'.files[m]
                /\ commands'.files[m][k] = commands.files[m][k]]_vars

----
\* The stats.

\* results.rs 26-32: Stats, and the AddAssign derived for it.
StatsDefault == [check_count |-> 0, pass_count |-> 0, fail_count |-> 0, err_count |-> 0]

StatsAdd(a, b) ==
    [check_count |-> a.check_count + b.check_count,
     pass_count |-> a.pass_count + b.pass_count,
     fail_count |-> a.fail_count + b.fail_count,
     err_count |-> a.err_count + b.err_count]

\* main.rs 231-234: the totals of the run, summed over its sections.
RECURSIVE RunTotals(_)
RunTotals(run_sections) ==
    IF run_sections = <<>> THEN StatsDefault
    ELSE StatsAdd(RunTotals(SubSeq(run_sections, 1, Len(run_sections) - 1)),
                  run_sections[Len(run_sections)].results.totals)

\* The sum of the field `field` of the totals of the sections.
RECURSIVE SumOfTotals(_, _)
SumOfTotals(run_sections, field) ==
    IF run_sections = <<>> THEN 0
    ELSE Head(run_sections).results.totals[field] + SumOfTotals(Tail(run_sections), field)

\* C30: in every section the check count is the number of check outputs and
\* the sum of the pass, fail and err counts; the totals of the run are the
\* sums of the totals of its sections, field by field.
C30_StatsAddUp ==
    /\ \A i \in DOMAIN sections :
          /\ sections[i].results.totals.check_count = Len(sections[i].results.check_outputs)
          /\ Len(sections[i].results.check_outputs) =
                sections[i].results.totals.pass_count
                + sections[i].results.totals.fail_count
                + sections[i].results.totals.err_count
    /\ \A field \in DOMAIN StatsDefault :
          RunTotals(sections)[field] = SumOfTotals(sections, field)


====
